---- MODULE Spec2Model ----
(***************************************************************************)
(* Model of the per-app log shard AppLogsDO of worker-logs                 *)
(* (src/src/durable-objects/app-logs-do.ts): the embedded store (logs,     *)
(* health_checks, config, daily_stats), the in-memory URL cache, the       *)
(* platform alarm slot, and the entry points and the alarm handler.        *)
(*                                                                         *)
(* The alarm handler is split at its await on fetch(): the platform lets   *)
(* other events of the same object run during that wait.  Every other      *)
(* handler runs to completion in one step (storage awaits keep the input   *)
(* gate closed).                                                           *)
(*                                                                         *)
(* Store failures: a writing INSERT statement may throw (storage full,     *)
(* constraint).  A throwing statement writes nothing.                      *)
(***************************************************************************)
EXTENDS Integers, Sequences, FiniteSets, TLC

----------------------------------------------------------------------------
(* Bounds of the model                                                     *)

\* URLs that callers configure
URLS == {"a", "b"}

\* longest URL list a caller passes
MaxUrls == 2

\* the clock never passes this instant (ms since the start of the run)
MaxClock == 400000

\* ids drawn in one run
MaxIds == 3

\* Retention window of health_checks per url.  The source keeps 1000
\* (app-logs-do.ts:356); the window is scaled down so that trimming happens
\* within the bounds above.
KeepLimit == 2

----------------------------------------------------------------------------
(* Program constants                                                       *)

\* setAlarm(Date.now() + 60 * 1000)
FirstDelayMs == 60 * 1000

\* setAlarm(Date.now() + 5 * 60 * 1000)
NextDelayMs == 5 * 60 * 1000

\* setTimeout(() => controller.abort(), 10000)
ProbeTimeoutMs == 10000

\* CHECK (level IN ('DEBUG', 'INFO', 'WARN', 'ERROR'))
LogLevel == {"DEBUG", "INFO", "WARN", "ERROR"}

\* ErrorCode of result.ts
INTERNAL_ERROR == "INTERNAL_ERROR"
BAD_REQUEST == "BAD_REQUEST"
UNAUTHORIZED == "UNAUTHORIZED"
VALIDATION_ERROR == "VALIDATION_ERROR"

\* a result without error code
Null == "null"

\* getAlarm() === null
NoAlarm == 0

\* no row under the key / SQL NULL in a TEXT column / an absent optional field
None == <<>>

\* an optional field that is present
Some(x) == <<x>>

----------------------------------------------------------------------------
VARIABLES
    now,          \* Date.now(), ms
    nextId,       \* ids drawn so far (crypto.randomUUID never repeats)
    healthUrls,   \* this.healthUrls, lost on eviction
    config,       \* table config: the value under key 'health_urls', or None
    alarm,        \* the object's alarm slot: NoAlarm or the fire time
    health,       \* table health_checks: set of rows
    logs,         \* table logs: set of rows
    stats,        \* table daily_stats: set of rows, one per date
    alarmPc,      \* "idle", or "fetch" while alarm() awaits fetch()
    urls,         \* alarm(): const urls
    idx,          \* alarm(): position of the for loop in urls
    start,        \* alarm(): const start
    firedAt,      \* the fire time of the alarm whose handler runs or ran last
    added,        \* rows inserted by the current fire, per url
    lastOp,       \* the step taken last
    arg,          \* the argument of that step, when it has one
    ret,          \* what that step returned, when it is an entry point
    cleared,      \* the last setHealthUrls call that succeeded passed []
    dropped,      \* the health_checks rows deleted so far
    batches,      \* the ids of each logBatch call that succeeded, in call order
    submitted,    \* per date and column, the sum of the counts that the
                  \* recordStats and recordStatsBatch calls so far passed to
                  \* their UPDATE
    pending,      \* the router's POST /logs requests whose insert succeeded
                  \* and whose counters are not recorded yet
    failed,       \* a statement of the entry point called last raised
    shard,        \* the app whose object the variables above describe
    parked        \* the objects of the other apps, each as a record

vars == <<now, nextId, healthUrls, config, alarm, health,
          logs, stats, alarmPc, urls, idx, start, firedAt, added, lastOp, arg,
          ret, cleared, dropped, batches, submitted, pending, failed,
          shard, parked>>

----------------------------------------------------------------------------
(* Helpers                                                                 *)

Range(s) == {s[i] : i \in 1..Len(s)}

SeqsUpTo(S, n) == UNION {[1..k -> S] : k \in 0..n}

UrlLists == SeqsUpTo(URLS, MaxUrls)

\* Ok(data) / Err({code, message}) of result.ts
Ok(data) == [ok |-> TRUE, code |-> Null, data |-> data]
Err(code) == [ok |-> FALSE, code |-> code, data |-> <<>>]

\* the last step was no entry point / took no argument
NoRet == [ok |-> TRUE, code |-> Null, data |-> <<>>]
NoArg == <<>>

\* a JavaScript number | undefined: limit and offset of QueryFilters,
\* days of getStatsRange
Undefined == [tag |-> "undefined", n |-> 0]
NaN == [tag |-> "NaN", n |-> 0]
Num(n) == [tag |-> "number", n |-> n]

\* x ?? d, and a parameter x with the default d
Nullish(x, d) == IF x.tag = "undefined" THEN d ELSE x

\* JSON.stringify of an array of strings, as its token sequence
RECURSIVE JSONitems(_)
JSONitems(list) ==
    IF list = <<>> THEN <<>>
    ELSE IF Len(list) = 1 THEN <<list[1]>>
    ELSE <<list[1], ",">> \o JSONitems(Tail(list))

JSONstringify(list) == <<"[">> \o JSONitems(list) \o <<"]">>

\* JSON.parse of such a text
JSONparse(text) ==
    LET n == (Len(text) - 1) \div 2
    IN  [i \in 1..n |-> text[2 * i]]

\* Date.prototype.toISOString: "YYYY-MM-DDTHH:mm:ss.sssZ", kept as its date
\* part and its time-of-day part; strings of this form compare like the pairs
DayMs == 24 * 60 * 60 * 1000

toISOString(ms) == <<ms \div DayMs, ms % DayMs>>

\* string comparison of two ISO timestamps: a >= b
IsoGeq(a, b) == a[1] > b[1] \/ (a[1] = b[1] /\ a[2] >= b[2])

\* the list held in durable storage
StoredUrls(cfg) == IF cfg = None THEN <<>> ELSE JSONparse(cfg)

----------------------------------------------------------------------------
(* Construction                                                            *)

\* initSchema on an empty store: four empty tables
\* the apps of the registry
Apps == {"A", "B"}

\* an object that was just constructed: empty tables, no alarm, an empty
\* cache (the per-object part of Init)
NewObject ==
    [healthUrls |-> <<>>, config |-> None, alarm |-> NoAlarm, health |-> {},
     logs |-> {}, stats |-> {}, alarmPc |-> "idle", urls |-> <<>>, idx |-> 0,
     start |-> 0, firedAt |-> NoAlarm, added |-> [u \in URLS |-> 0],
     cleared |-> FALSE, dropped |-> {}, batches |-> <<>>, submitted |-> {}]

Init ==
    /\ now = 0
    /\ nextId = 0
    /\ healthUrls = <<>>
    /\ config = None
    /\ alarm = NoAlarm
    /\ health = {}
    /\ logs = {}
    /\ stats = {}
    /\ alarmPc = "idle"
    /\ urls = <<>>
    /\ idx = 0
    /\ start = 0
    /\ firedAt = NoAlarm
    /\ added = [u \in URLS |-> 0]
    /\ lastOp = "init"
    /\ arg = NoArg
    /\ ret = NoRet
    /\ cleared = FALSE
    /\ dropped = {}
    /\ batches = <<>>
    /\ submitted = {}
    /\ pending = <<>>
    /\ failed = FALSE
    /\ shard = "A"
    /\ parked = [app \in Apps \ {"A"} |-> NewObject]

----------------------------------------------------------------------------
(* setHealthUrls                                                           *)

\* ArmFirst without the check of the existing alarm
ArmFirstAlways(existingAlarm, list, t) ==
    IF Len(list) > 0 THEN t + FirstDelayMs ELSE existingAlarm

\* ArmFirst with the delay of the re-arm
ArmFirstLate(existingAlarm, list, t) ==
    IF existingAlarm = NoAlarm /\ Len(list) > 0
    THEN t + NextDelayMs
    ELSE existingAlarm

\* the alarm slot after lines 254-258
ArmFirst(existingAlarm, list, t) ==
    IF existingAlarm = NoAlarm /\ Len(list) > 0
    THEN t + FirstDelayMs
    ELSE existingAlarm

\* lines 243-265.  failAt: the awaited call of the try block that throws
\* (0: none; 1: the INSERT OR REPLACE of lines 248-251; 2: getAlarm or
\* setAlarm of lines 254-257, after the INSERT has been done)
setHealthUrlsAt(list, failAt) ==
    /\ failAt \in {0, 1, 2}
    /\ healthUrls' = list
    /\ config' = IF failAt = 1 THEN config ELSE JSONstringify(list)
    /\ alarm' = IF failAt = 0 THEN ArmFirst(alarm, list, now) ELSE alarm
    /\ ret' = IF failAt = 0 THEN Ok(list) ELSE Err(INTERNAL_ERROR)
    /\ failed' = (failAt # 0)
    /\ lastOp' = "setHealthUrls"
    /\ arg' = <<list>>
    /\ cleared' = IF failAt = 0 THEN Len(list) = 0 ELSE cleared
    /\ UNCHANGED <<now, nextId, health, logs, stats, alarmPc, urls, idx,
                   start, firedAt, added, dropped, batches,
                   submitted, pending,
                   shard, parked>>

\* the call whose store write succeeds or throws
setHealthUrls(list, storeFails) ==
    setHealthUrlsAt(list, IF storeFails THEN 1 ELSE 0)

----------------
(* The clock                                                               *)

\* time passes until the pending alarm is due
Tick ==
    /\ alarm # NoAlarm
    /\ alarm > now
    /\ alarm <= MaxClock
    /\ now' = alarm
    /\ lastOp' = "tick"
    /\ arg' = NoArg
    /\ ret' = NoRet
    /\ UNCHANGED <<nextId, healthUrls, config, alarm, health, logs, stats,
                   alarmPc, urls, idx, start, firedAt, added, cleared, dropped, batches,
                   submitted, pending, failed,
                   shard, parked>>

----------------------------------------------------------------------------
(* getHealthUrls                                                           *)

\* the cache when it is non-empty; otherwise the stored value, when there
\* is a row and its value is truthy (cursor.one() throws without a row and
\* the catch returns the cache)
getHealthUrls(cache, cfg) ==
    IF Len(cache) > 0 THEN cache
    ELSE IF cfg # None /\ Len(cfg) > 0 THEN JSONparse(cfg)
    ELSE cache

----------------------------------------------------------------------------
(* recordHealthCheck                                                       *)

\* response codes a probed server answers with
Statuses == {200}

\* how long a fetch() that ends before the abort takes
ProbeMs == 1

Min(a, b) == IF a < b THEN a ELSE b

HealthRow(id, url, status, latencyMs, checkedAt) ==
    [id |-> id, url |-> url, status |-> status, latency_ms |-> latencyMs,
     checked_at |-> checkedAt]

\* TopRecent with ORDER BY checked_at ASC
TopOldest(h, url, n) ==
    LET mine == {r \in h : r.url = url}
    IN  {K \in SUBSET mine :
            /\ Cardinality(K) = Min(n, Cardinality(mine))
            /\ \A k \in K, r \in mine \ K : IsoGeq(r.checked_at, k.checked_at)}

\* SELECT id FROM health_checks WHERE url = ? ORDER BY checked_at DESC
\* LIMIT n: every outcome the store may give (rows of equal checked_at come
\* in no fixed order)
TopRecent(h, url, n) ==
    LET mine == {r \in h : r.url = url}
    IN  {K \in SUBSET mine :
            /\ Cardinality(K) = Min(n, Cardinality(mine))
            /\ \A k \in K, r \in mine \ K : IsoGeq(k.checked_at, r.checked_at)}

\* DELETE FROM health_checks WHERE url = ? AND id NOT IN (keep)
DeleteOthers(h, url, keep) ==
    {r \in h : ~(r.url = url /\ r.id \notin {k.id : k \in keep})}

\* the tables recordHealthCheck may leave when its INSERT succeeds
recordHealthCheck(h, id, url, status, latencyMs, checkedAt) ==
    LET h2 == h \cup {HealthRow(id, url, status, latencyMs, checkedAt)}
    IN  {DeleteOthers(h2, url, keep) : keep \in TopRecent(h2, url, KeepLimit)}

----------------------------------------------------------------------------
(* alarm                                                                   *)

\* the slot after the handler threw: the platform keeps the alarm for a
\* retry unless a later one was set while the handler ran
RetryAlarm(slot, fired) == IF slot # NoAlarm THEN slot ELSE fired

\* the slot after lines 515-517
ArmNext(slot, list, t) == IF Len(list) > 0 THEN t + NextDelayMs ELSE slot

\* the platform starts the handler of a due alarm; the slot reads null
\* while the handler runs.  Lines 493 and, for an empty list, 495-517.
AlarmStart ==
    /\ alarmPc = "idle"
    /\ alarm # NoAlarm
    /\ now >= alarm
    /\ LET list == getHealthUrls(healthUrls, config)
       IN  /\ healthUrls' = list
           /\ IF Len(list) > 0
              THEN /\ alarmPc' = "fetch"
                   /\ urls' = list
                   /\ idx' = 1
                   /\ start' = now
                   /\ firedAt' = alarm
                   /\ alarm' = NoAlarm
                   /\ lastOp' = "alarmStart"
              ELSE /\ alarmPc' = "idle"
                   /\ urls' = <<>>
                   /\ idx' = 0
                   /\ start' = 0
                   /\ firedAt' = NoAlarm
                   /\ alarm' = ArmNext(NoAlarm, list, now)
                   /\ lastOp' = "alarmNoop"
    /\ added' = [u \in URLS |-> 0]
    /\ arg' = NoArg
    /\ ret' = NoRet
    /\ UNCHANGED <<now, nextId, config, health, logs, stats, cleared, dropped, batches,
                   submitted, pending, failed,
                   shard, parked>>

\* fetch(urls[idx]) settles after d ms: with a response (status # 0) or by
\* throwing (status = 0; at once, or at d = ProbeTimeoutMs by the abort).  Lines 496-517.
\* f1, f2: the INSERT of the first / second recordHealthCheck call throws.
FetchDone(status, d, f1, f2) ==
    /\ alarmPc = "fetch"
    /\ (status # 0) => (d < ProbeTimeoutMs)
    /\ f2 => (f1 /\ status # 0)
    /\ now + d <= MaxClock
    /\ LET url == urls[idx]
           t == now + d
           tries == IF status # 0 /\ f1 THEN 2 ELSE 1
           thrown == IF status = 0 THEN f1 ELSE f1 /\ f2
           recorded == IF status # 0 /\ ~f1 THEN status ELSE 0
       IN  /\ nextId + tries <= MaxIds
           /\ now' = t
           /\ nextId' = nextId + tries
           /\ IF thrown
              THEN /\ alarmPc' = "idle"
                   /\ alarm' = RetryAlarm(alarm, firedAt)
                   /\ UNCHANGED dropped
                   /\ lastOp' = "alarmThrow"
                   /\ urls' = <<>>
                   /\ idx' = 0
                   /\ start' = 0
                   /\ firedAt' = NoAlarm
                   /\ UNCHANGED <<health, added>>
              ELSE /\ health' \in recordHealthCheck(health, nextId + tries,
                                      url, recorded, t - start, toISOString(t))
                   /\ dropped' = dropped \cup {r \in health : r \notin health'}
                                     \cup {r \in {HealthRow(nextId + tries, url,
                                             recorded, t - start, toISOString(t))} :
                                             r \notin health'}
                   /\ added' = [added EXCEPT ![url] = @ + 1]
                   /\ IF idx < Len(urls)
                      THEN /\ idx' = idx + 1
                           /\ start' = t
                           /\ lastOp' = "probe"
                           /\ UNCHANGED <<alarmPc, alarm, firedAt, urls>>
                      ELSE /\ alarmPc' = "idle"
                           /\ alarm' = ArmNext(alarm, urls, t)
                           /\ lastOp' = "alarmEnd"
                           /\ urls' = <<>>
                           /\ idx' = 0
                           /\ start' = 0
                           /\ firedAt' = NoAlarm
    /\ arg' = <<[status |-> status, ms |-> d]>>
    /\ ret' = NoRet
    /\ UNCHANGED <<healthUrls, config, logs, stats, cleared, batches,
                   submitted, pending, failed,
                   shard, parked>>

----------------------------------------------------------------------------
(* Eviction and reactivation                                               *)

TableNames == {"logs", "health_checks", "config", "daily_stats"}

EmptyTable(name) == IF name = "config" THEN None ELSE {}

\* initSchema with CREATE TABLE in place of CREATE TABLE IF NOT EXISTS on a
\* dropped table
initSchemaDrop(exists, db) == [t \in TableNames |-> EmptyTable(t)]

\* CREATE TABLE IF NOT EXISTS, for each of the four tables
initSchema(exists, db) ==
    [t \in TableNames |-> IF t \in exists THEN db[t] ELSE EmptyTable(t)]

\* the object leaves memory between events and is constructed again:
\* fields take their initial values, the constructor runs initSchema
Evict ==
    /\ alarmPc = "idle"
    /\ LET db == initSchema(TableNames,
                    [logs |-> logs, health_checks |-> health,
                     config |-> config, daily_stats |-> stats])
       IN  /\ logs' = db["logs"]
           /\ health' = db["health_checks"]
           /\ config' = db["config"]
           /\ stats' = db["daily_stats"]
    /\ healthUrls' = <<>>
    /\ lastOp' = "evict"
    /\ arg' = NoArg
    /\ ret' = NoRet
    /\ UNCHANGED <<now, nextId, alarm, alarmPc, urls, idx, start, firedAt,
                   added, cleared, dropped, batches,
                   submitted, pending, failed,
                   shard, parked>>

----------------------------------------------------------------------------
(* log                                                                     *)

\* JSON.stringify of a context object, given as its <<key, value>> pairs
RECURSIVE JSONmembers(_)
JSONmembers(pairs) ==
    IF pairs = <<>> THEN <<>>
    ELSE IF Len(pairs) = 1 THEN <<pairs[1][1], ":", pairs[1][2]>>
    ELSE <<pairs[1][1], ":", pairs[1][2], ",">> \o JSONmembers(Tail(pairs))

JSONobject(pairs) == <<"{">> \o JSONmembers(pairs) \o <<"}">>

\* levels, messages, contexts and request ids that callers send
InputLevels == {"INFO", "ERROR", "TRACE"}
Messages == {"start", "Start"}
Contexts == {None, Some(<< <<"path", "/a">> >>)}
RequestIds == {None, Some("r1")}

LogInput == [level : InputLevels, message : Messages, context : Contexts,
             request_id : RequestIds]

\* const entry: LogEntry = { ... }
LogEntry(id, timestamp, input) ==
    [id |-> id, timestamp |-> timestamp, level |-> input.level,
     message |-> input.message, context |-> input.context,
     request_id |-> input.request_id]

\* the row bound to the INSERT: context serialized, absent fields NULL
LogRow(entry) ==
    [entry EXCEPT !.context = IF entry.context # None
                              THEN Some(JSONobject(entry.context[1])) ELSE None]

\* the CHECK constraint of table logs
LevelCheck(level) == level \in LogLevel

logBody(input, storeFails) ==
    /\ nextId + 1 <= MaxIds
    /\ nextId' = nextId + 1
    /\ LET entry == LogEntry(nextId + 1, toISOString(now), input)
       IN  IF storeFails \/ ~LevelCheck(entry.level)
           THEN /\ ret' = Err(INTERNAL_ERROR)
                /\ UNCHANGED logs
           ELSE /\ logs' = logs \cup {LogRow(entry)}
                /\ ret' = Ok(<<entry>>)
    /\ failed' = (storeFails \/ ~LevelCheck(input.level))
    /\ lastOp' = "log"
    /\ arg' = <<input>>
    /\ UNCHANGED <<now, healthUrls, config, alarm, health, stats, alarmPc, urls,
                   idx, start, firedAt, added, cleared, dropped, batches,
                   submitted,
                   shard, parked>>

\* log called with no request of the router in flight changing
log(input, storeFails) ==
    logBody(input, storeFails) /\ UNCHANGED pending

----------------------------------------------------------------------------
(* recordStats                                                             *)

\* d.toISOString().split('T')[0]
getDateKey(ms) == toISOString(ms)[1]

ZeroStats(date) == [date |-> date, debug |-> 0, info |-> 0, warn |-> 0,
                    error |-> 0]

\* INSERT OR IGNORE INTO daily_stats ... VALUES (?, 0, 0, 0, 0)
InsertOrIgnore(table, date) ==
    IF \E r \in table : r.date = date THEN table ELSE table \cup {ZeroStats(date)}

\* level.toLowerCase()
toLowerCase(level) ==
    CASE level = "DEBUG" -> "debug"
      [] level = "INFO" -> "info"
      [] level = "WARN" -> "warn"
      [] level = "ERROR" -> "error"

\* Increment that writes back a value read before other calls ran: the
\* count alone
IncrementLost(table, date, column, count) ==
    {IF r.date = date THEN [r EXCEPT ![column] = count] ELSE r : r \in table}

\* UPDATE daily_stats SET column = column + ? WHERE date = ?
Increment(table, date, column, count) ==
    {IF r.date = date THEN [r EXCEPT ![column] = @ + count] ELSE r : r \in table}

\* largest counter value the model lets a day reach
MaxCount == 1

\* no counter of the table lies beyond the largest value of the model
WithinCount(table) ==
    \A r \in table : \A column \in {"debug", "info", "warn", "error"} :
        r[column] <= MaxCount /\ r[column] >= 0 - MaxCount

\* count: number = 1
DefaultCount == 1

\* a method that returns its value bare (no Ok/Err around it) or raises what
\* the store raised
Returned(value) == [value |-> value]
Raised == [raised |-> TRUE]

\* cursor.one() of SELECT * FROM daily_stats WHERE date = ?
StatsRow(table, date) == CHOOSE r \in table : r.date = date

\* the ledger of the counts passed so far, with count more under the date
\* and the column
Submit(ledger, date, column, count) ==
    IF \E e \in ledger : e.date = date /\ e.column = column
    THEN {IF e.date = date /\ e.column = column
          THEN [e EXCEPT !.sum = @ + count] ELSE e : e \in ledger}
    ELSE ledger \cup {[date |-> date, column |-> column, sum |-> count]}

\* recordStats on a store whose statement number failAt raises (0: none
\* does): the table it leaves and what it returns
recordStatsRun(table, dateKey, level, count, failAt) ==
    LET inserted == InsertOrIgnore(table, dateKey)
        updated == Increment(inserted, dateKey, toLowerCase(level), count)
    IN  [table |-> CASE failAt = 1 -> table
                     [] failAt = 2 -> inserted
                     [] OTHER -> updated,
         ret |-> IF failAt = 0 THEN Returned(StatsRow(updated, dateKey))
                 ELSE Raised]

\* recordStats with count = 0 as the default
recordStatsDefaultZero(level, count, failAt) ==
    /\ LET run == recordStatsRun(stats, getDateKey(now), level,
                                 Nullish(count, Num(0)).n, failAt)
       IN  /\ stats' = run.table
           /\ ret' = run.ret
    /\ submitted' = IF failAt \in {1, 2} THEN submitted
                    ELSE Submit(submitted, getDateKey(now), toLowerCase(level),
                                Nullish(count, Num(DefaultCount)).n)
    /\ failed' = (failAt # 0)
    /\ lastOp' = "recordStats"
    /\ arg' = <<[level |-> level, count |-> count]>>
    /\ UNCHANGED <<now, nextId, healthUrls, config, alarm, health, logs,
                   alarmPc, urls, idx, start, firedAt, added, cleared, dropped,
                   batches, pending,
                   shard, parked>>

\* count is the argument, or Undefined for recordStats(level)
recordStats(level, count, failAt) ==
    /\ LET run == recordStatsRun(stats, getDateKey(now), level,
                                 Nullish(count, Num(DefaultCount)).n, failAt)
       IN  /\ stats' = run.table
           /\ ret' = run.ret
    /\ submitted' = IF failAt \in {1, 2} THEN submitted
                    ELSE Submit(submitted, getDateKey(now), toLowerCase(level),
                                Nullish(count, Num(DefaultCount)).n)
    /\ failed' = (failAt # 0)
    /\ lastOp' = "recordStats"
    /\ arg' = <<[level |-> level, count |-> count]>>
    /\ UNCHANGED <<now, nextId, healthUrls, config, alarm, health, logs,
                   alarmPc, urls, idx, start, firedAt, added, cleared, dropped,
                   batches, pending,
                   shard, parked>>

----------------------------------------------------------------------------
(* recordStatsBatch                                                        *)

Columns == {"debug", "info", "warn", "error"}

\* Totals that keeps the count of the last item only
RECURSIVE TotalsOfLast(_)
TotalsOfLast(counts) ==
    IF counts = <<>> THEN [column \in Columns |-> 0]
    ELSE IF Len(counts) = 1
         THEN [[column \in Columns |-> 0]
                 EXCEPT ![toLowerCase(counts[1].level)] = counts[1].count]
    ELSE TotalsOfLast(Tail(counts))

\* for (const { level, count } of counts) totals[level.toLowerCase()] += count
RECURSIVE Totals(_)
Totals(counts) ==
    IF counts = <<>> THEN [column \in Columns |-> 0]
    ELSE LET rest == Totals(Tail(counts))
             column == toLowerCase(Head(counts).level)
         IN  [rest EXCEPT ![column] = @ + Head(counts).count]

\* UPDATE daily_stats SET debug = debug + ?, info = info + ?, warn = warn + ?,
\* error = error + ? WHERE date = ?
IncrementAll(table, date, totals) ==
    {IF r.date = date
     THEN [r EXCEPT !.debug = @ + totals.debug, !.info = @ + totals.info,
                    !.warn = @ + totals.warn, !.error = @ + totals.error]
     ELSE r : r \in table}

\* recordStatsBatch on a store whose statement number failAt raises (0: none
\* does): the table it leaves and what it returns
recordStatsBatchRun(table, dateKey, counts, failAt) ==
    LET inserted == InsertOrIgnore(table, dateKey)
        updated == IncrementAll(inserted, dateKey, Totals(counts))
    IN  [table |-> CASE failAt = 1 -> table
                     [] failAt = 2 -> inserted
                     [] OTHER -> updated,
         ret |-> IF failAt = 0 THEN Returned(StatsRow(updated, dateKey))
                 ELSE Raised]

RECURSIVE SubmitAll(_, _, _)
SubmitAll(ledger, date, counts) ==
    IF counts = <<>> THEN ledger
    ELSE SubmitAll(Submit(ledger, date, toLowerCase(Head(counts).level),
                          Head(counts).count),
                   date, Tail(counts))

recordStatsBatch(counts, failAt) ==
    /\ LET run == recordStatsBatchRun(stats, getDateKey(now), counts, failAt)
       IN  /\ stats' = run.table
           /\ ret' = run.ret
    /\ submitted' = IF failAt \in {1, 2} THEN submitted
                    ELSE SubmitAll(submitted, getDateKey(now), counts)
    /\ failed' = (failAt # 0)
    /\ lastOp' = "recordStatsBatch"
    /\ arg' = <<counts>>
    /\ UNCHANGED <<now, nextId, healthUrls, config, alarm, health, logs,
                   alarmPc, urls, idx, start, firedAt, added, cleared, dropped,
                   batches, pending,
                   shard, parked>>

----------------------------------------------------------------------------
(* getStats, getStatsRange                                                 *)

\* getStatsOf that never reads the row
getStatsZero(table, dateKey) == ZeroStats(dateKey)

\* getStats(date) on a table: the row of the date, or a row of zeros made up
\* for it
getStatsOf(table, dateKey) ==
    IF {r \in table : r.date = dateKey} = {} THEN ZeroStats(dateKey)
    ELSE StatsRow(table, dateKey)

\* date is the argument, or None for getStats()
getStats(date, storeFails) ==
    /\ LET dateKey == IF date = None THEN getDateKey(now) ELSE date[1]
       IN  ret' = IF storeFails THEN Raised
                  ELSE Returned(getStatsOf(stats, dateKey))
    /\ failed' = storeFails
    /\ lastOp' = "getStats"
    /\ arg' = <<date>>
    /\ UNCHANGED <<now, nextId, healthUrls, config, alarm, health, logs, stats,
                   alarmPc, urls, idx, start, firedAt, added, cleared, dropped,
                   batches, submitted, pending,
                   shard, parked>>

\* getStatsRangeOf that starts at yesterday
getStatsRangeFromYesterday(table, today, days) ==
    LET n == IF days.tag = "number" /\ days.n > 0 THEN days.n ELSE 0
    IN  [k \in 1..n |-> getStatsOf(table, today - k)]

\* the loop of getStatsRange: for (let i = 0; i < days; i++), the date i days
\* before today.  days is a JavaScript number: i < NaN is false.
getStatsRangeOf(table, today, days) ==
    LET n == IF days.tag = "number" /\ days.n > 0 THEN days.n ELSE 0
    IN  [k \in 1..n |-> getStatsOf(table, today - (k - 1))]

\* the source's default of days
DefaultDays == 7

\* days is the argument, or Undefined for getStatsRange()
getStatsRange(days, storeFails) ==
    /\ LET n == Nullish(days, Num(DefaultDays))
       IN  /\ ret' = IF storeFails /\ n.tag = "number" /\ n.n > 0
                     THEN Raised
                     ELSE Returned(getStatsRangeOf(stats, getDateKey(now), n))
           /\ failed' = (storeFails /\ n.tag = "number" /\ n.n > 0)
    /\ lastOp' = "getStatsRange"
    /\ arg' = <<days>>
    /\ UNCHANGED <<now, nextId, healthUrls, config, alarm, health, logs, stats,
                   alarmPc, urls, idx, start, firedAt, added, cleared, dropped,
                   batches, submitted, pending,
                   shard, parked>>

----------------------------------------------------------------------------
(* Time between the calls of the log API                                   *)

\* the clock of the specifications of the log API never passes this instant
MaxTicks == 2

\* a millisecond passes between two events
Elapse ==
    /\ now < MaxTicks
    /\ now' = now + 1
    /\ lastOp' = "elapse"
    /\ arg' = NoArg
    /\ ret' = NoRet
    /\ UNCHANGED <<nextId, healthUrls, config, alarm, health, logs, stats,
                   alarmPc, urls, idx, start, firedAt, added, cleared,
                   dropped, batches,
                   submitted, pending, failed,
                   shard, parked>>

----------------------------------------------------------------------------
(* logBatch                                                                *)

\* longest batch a caller passes
MaxBatch == 2

\* the inputs of the batches: two messages, and one of a level the CHECK
\* refuses
BatchInputs ==
    {input \in LogInput : /\ \/ input.level = "INFO"
                             \/ input.level = "TRACE" /\ input.message = "start"
                          /\ input.context = None
                          /\ input.request_id = None}

\* BatchEntries with the entries pushed in front
BatchEntriesReversed(inputs, firstId, timestamp) ==
    [i \in 1..Len(inputs) |->
        LogEntry(firstId + i - 1, timestamp, inputs[Len(inputs) + 1 - i])]

\* the entries the loop builds: ids in call order, one timestamp
BatchEntries(inputs, firstId, timestamp) ==
    [i \in 1..Len(inputs) |-> LogEntry(firstId + i - 1, timestamp, inputs[i])]

\* the position of the first INSERT that throws: the first entry the CHECK
\* refuses or the position at which the store fails (failAt, 0: nowhere);
\* 0 when none throws
FirstFailure(inputs, failAt) ==
    LET bad == {i \in 1..Len(inputs) :
                   ~LevelCheck(inputs[i].level) \/ i = failAt}
    IN  IF bad = {} THEN 0 ELSE CHOOSE i \in bad : \A j \in bad : i <= j

\* the rows inserted before the loop ends or throws stay in the table: the
\* catch returns the failure and undoes nothing
logBatchBody(inputs, failAt) ==
    LET k == FirstFailure(inputs, failAt)
        drawn == IF k = 0 THEN Len(inputs) ELSE k
        inserted == IF k = 0 THEN Len(inputs) ELSE k - 1
        entries == BatchEntries(inputs, nextId + 1, toISOString(now))
    IN  /\ nextId + drawn <= MaxIds
        /\ nextId' = nextId + drawn
        /\ logs' = logs \cup {LogRow(entries[i]) : i \in 1..inserted}
        /\ ret' = IF k = 0 THEN Ok(entries) ELSE Err(INTERNAL_ERROR)
        /\ batches' = IF k = 0 /\ Len(inputs) > 0
                      THEN Append(batches, {entries[i].id : i \in 1..Len(inputs)})
                      ELSE batches
        /\ failed' = (FirstFailure(inputs, failAt) # 0)
        /\ lastOp' = "logBatch"
        /\ arg' = <<inputs>>
        /\ UNCHANGED <<now, healthUrls, config, alarm, health, stats, alarmPc,
                       urls, idx, start, firedAt, added, cleared, dropped,
                       submitted,
                   shard, parked>>

\* logBatch called with no request of the router in flight changing
logBatch(inputs, failAt) ==
    logBatchBody(inputs, failAt) /\ UNCHANGED pending

----------------------------------------------------------------------------
(* query                                                                   *)

\* filters.limit ?? 100.  The source's default is 100 (app-logs-do.ts:191);
\* it is scaled down so that a store within the bounds holds more entries
\* than the default page.
DefaultLimit == 2

\* the characters of the messages and search texts of the model
Chars(text) ==
    CASE text = "start" -> <<"s", "t", "a", "r", "t">>
      [] text = "Start" -> <<"S", "t", "a", "r", "t">>

\* SQLite folds the ASCII letters of both operands of LIKE
FoldCase(c) ==
    CASE c = "S" -> "s"
      [] c = "T" -> "t"
      [] c = "A" -> "a"
      [] c = "R" -> "r"
      [] OTHER -> c

\* text LIKE pattern of SQLite: % matches any run of characters, _ any one
\* character, letters match without regard to case
RECURSIVE Like(_, _)
Like(pattern, text) ==
    IF pattern = <<>> THEN text = <<>>
    ELSE IF Head(pattern) = "%"
         THEN \/ Like(Tail(pattern), text)
              \/ text # <<>> /\ Like(pattern, Tail(text))
    ELSE IF text = <<>> THEN FALSE
    ELSE /\ \/ Head(pattern) = "_"
            \/ FoldCase(Head(pattern)) = FoldCase(Head(text))
         /\ Like(Tail(pattern), Tail(text))

\* JSON.parse of the text JSONobject writes: the <<key, value>> pairs
JSONparseObject(text) ==
    LET n == (Len(text) + 1) \div 4
    IN  [i \in 1..n |-> <<text[4 * i - 2], text[4 * i]>>]

\* json_extract(context, '$.key'): NULL for a NULL context or a missing key
json_extract(context, key) ==
    IF context = None THEN None
    ELSE LET pairs == JSONparseObject(context[1])
             at == {i \in 1..Len(pairs) : pairs[i][1] = key}
         IN  IF at = {} THEN None
             ELSE Some(pairs[CHOOSE i \in at : \A j \in at : i <= j][2])

\* Where with OR between the conditions
WhereAny(row, filters) ==
    \/ filters.level # None /\ row.level = filters.level[1]
    \/ filters.since # None /\ IsoGeq(row.timestamp, filters.since[1])
    \/ filters.until # None /\ IsoGeq(filters.until[1], row.timestamp)
    \/ filters.request_id # None /\ row.request_id = filters.request_id
    \/ filters.search # None /\ Like(<<"%">> \o Chars(filters.search[1]) \o <<"%">>,
                                     Chars(row.message))
    \/ filters.context # None /\
          \E i \in 1..Len(filters.context[1]) :
             json_extract(row.context, filters.context[1][i][1])
                = Some(filters.context[1][i][2])

\* the WHERE clause: the conditions of the filters that are given, joined
\* by AND (a comparison with NULL is not true)
Where(row, filters) ==
    /\ filters.level # None => row.level = filters.level[1]
    /\ filters.since # None => IsoGeq(row.timestamp, filters.since[1])
    /\ filters.until # None => IsoGeq(filters.until[1], row.timestamp)
    /\ filters.request_id # None => row.request_id = filters.request_id
    /\ filters.search # None =>
          Like(<<"%">> \o Chars(filters.search[1]) \o <<"%">>, Chars(row.message))
    /\ filters.context # None =>
          \A i \in 1..Len(filters.context[1]) :
             json_extract(row.context, filters.context[1][i][1])
                = Some(filters.context[1][i][2])

\* OrderByTimestampDesc that leaves the rows in any order
OrderByNothing(rows) ==
    {s \in [1..Cardinality(rows) -> rows] :
        \A i, j \in 1..Cardinality(rows) : i # j => s[i] # s[j]}

\* ORDER BY timestamp DESC: every order the store may give (rows of equal
\* timestamp come in no fixed order)
OrderByTimestampDesc(rows) ==
    {s \in [1..Cardinality(rows) -> rows] :
        /\ \A i, j \in 1..Cardinality(rows) : i # j => s[i] # s[j]
        /\ \A i, j \in 1..Cardinality(rows) :
              i < j => IsoGeq(s[i].timestamp, s[j].timestamp)}

\* LimitOffset that forgets the offset
LimitOnly(s, limit, offset) ==
    LET last == IF limit < 0 THEN Len(s) ELSE Min(Len(s), limit)
    IN  IF 1 > last THEN <<>> ELSE SubSeq(s, 1, last)

\* LIMIT ? OFFSET ? of SQLite: a negative limit is no limit, a negative
\* offset is 0
LimitOffset(s, limit, offset) ==
    LET skip == IF offset < 0 THEN 0 ELSE offset
        last == IF limit < 0 THEN Len(s) ELSE Min(Len(s), skip + limit)
    IN  IF skip + 1 > last THEN <<>> ELSE SubSeq(s, skip + 1, last)

\* rows.map(...): the context parsed back
RowEntry(row) ==
    [row EXCEPT !.context = IF row.context # None
                            THEN Some(JSONparseObject(row.context[1]))
                            ELSE None]

\* a NaN reaches LIMIT or OFFSET
BadPaging(filters) ==
    \/ Nullish(filters.limit, Num(DefaultLimit)).tag = "NaN"
    \/ Nullish(filters.offset, Num(0)).tag = "NaN"

\* what query may return on a table.  A NaN bound to LIMIT or OFFSET is
\* stored as NULL and the statement fails (datatype mismatch); the catch
\* returns the failure.
QueryOutcomes(table, filters) ==
    LET limit == Nullish(filters.limit, Num(DefaultLimit))
        offset == Nullish(filters.offset, Num(0))
        rows == {r \in table : Where(r, filters)}
    IN  IF limit.tag = "NaN" \/ offset.tag = "NaN"
        THEN {Err(INTERNAL_ERROR)}
        ELSE {Ok([i \in 1..Len(page) |-> RowEntry(page[i])]) :
                page \in {LimitOffset(s, limit.n, offset.n) :
                            s \in OrderByTimestampDesc(rows)}}

query(filters, storeFails) ==
    /\ ret' \in IF storeFails THEN {Err(INTERNAL_ERROR)}
               ELSE QueryOutcomes(logs, filters)
    /\ failed' = (storeFails \/ BadPaging(filters))
    /\ lastOp' = "query"
    /\ arg' = <<filters>>
    /\ UNCHANGED <<now, nextId, healthUrls, config, alarm, health, logs, stats,
                   alarmPc, urls, idx, start, firedAt, added, cleared,
                   dropped, batches,
                   submitted, pending,
                   shard, parked>>

\* query({})
NoFilters ==
    [level |-> None, since |-> None, until |-> None, request_id |-> None,
     search |-> None, context |-> None, limit |-> Undefined,
     offset |-> Undefined]

----------------------------------------------------------------------------
(* getHealthHistory                                                        *)

\* limit = 50
DefaultHistory == 50

\* ORDER BY checked_at DESC: every order the store may give
OrderByCheckedAtDesc(rows) ==
    {s \in [1..Cardinality(rows) -> rows] :
        /\ \A i, j \in 1..Cardinality(rows) : i # j => s[i] # s[j]
        /\ \A i, j \in 1..Cardinality(rows) :
              i < j => IsoGeq(s[i].checked_at, s[j].checked_at)}

\* what getHealthHistory may return on a table: url is the argument or None,
\* limit a JavaScript number.  A NaN bound to LIMIT fails the statement.
HistoryOutcomes(table, url, limit) ==
    LET rows == IF url # None THEN {r \in table : r.url = url[1]} ELSE table
        n == Nullish(limit, Num(DefaultHistory))
    IN  IF n.tag = "NaN" THEN {Err(INTERNAL_ERROR)}
        ELSE {Ok(LimitOffset(s, n.n, 0)) : s \in OrderByCheckedAtDesc(rows)}

getHealthHistory(url, limit, storeFails) ==
    /\ ret' \in IF storeFails THEN {Err(INTERNAL_ERROR)}
               ELSE HistoryOutcomes(health, url, limit)
    /\ failed' = (storeFails \/ Nullish(limit, Num(DefaultHistory)).tag = "NaN")
    /\ lastOp' = "getHealthHistory"
    /\ arg' = <<url, limit>>
    /\ UNCHANGED <<now, nextId, healthUrls, config, alarm, health, logs, stats,
                   alarmPc, urls, idx, start, firedAt, added, cleared,
                   dropped, batches, submitted, pending,
                   shard, parked>>

----------------------------------------------------------------------------
(* fetch: GET /logs                                                        *)

\* a search parameter is <<key, value>>; a key is <<prefix, name>>, the
\* prefix "context." or none; the value of limit and offset is the sequence
\* of its characters
Key(name) == <<"", name>>
ContextKey(name) == <<"context.", name>>

DigitValue(c) ==
    CASE c = "0" -> 0 [] c = "1" -> 1 [] c = "2" -> 2 [] c = "3" -> 3
      [] c = "4" -> 4 [] c = "5" -> 5 [] c = "6" -> 6 [] c = "7" -> 7
      [] c = "8" -> 8 [] c = "9" -> 9 [] OTHER -> -1

RECURSIVE DigitsValue(_, _)
DigitsValue(text, acc) ==
    IF text = <<>> \/ DigitValue(Head(text)) < 0 THEN acc
    ELSE DigitsValue(Tail(text), 10 * acc + DigitValue(Head(text)))

\* parseInt of an unsigned text: the value of its leading digits, NaN when
\* it starts with none
parseInt(text) ==
    IF text = <<>> \/ DigitValue(Head(text)) < 0 THEN NaN
    ELSE Num(DigitsValue(text, 0))

\* url.searchParams.has(name)
Has(params, name) == \E i \in 1..Len(params) : params[i][1] = Key(name)

\* url.searchParams.get(name) ?? undefined: the first value under the name
Get(params, name) ==
    IF Has(params, name)
    THEN Some(params[CHOOSE i \in 1..Len(params) :
                        /\ params[i][1] = Key(name)
                        /\ \A j \in 1..(i - 1) : params[j][1] # Key(name)][2])
    ELSE None

\* the context object built from the context.* parameters
RECURSIVE ContextOf(_)
ContextOf(params) ==
    IF params = <<>> THEN <<>>
    ELSE IF Head(params)[1][1] = "context."
         THEN <<<<Head(params)[1][2], Head(params)[2]>>>> \o ContextOf(Tail(params))
         ELSE ContextOf(Tail(params))

\* const filters: QueryFilters = { ... }; other keys are not read
ParseFilters(params) ==
    [level |-> Get(params, "level"),
     since |-> Get(params, "since"),
     until |-> Get(params, "until"),
     request_id |-> Get(params, "request_id"),
     search |-> Get(params, "search"),
     context |-> IF ContextOf(params) # <<>> THEN Some(ContextOf(params))
                 ELSE None,
     limit |-> IF Has(params, "limit") THEN parseInt(Get(params, "limit")[1])
               ELSE Undefined,
     offset |-> IF Has(params, "offset") THEN parseInt(Get(params, "offset")[1])
                ELSE Undefined]

\* GET /logs: Response.json(await this.query(filters))
fetchLogs(params) ==
    /\ ret' \in QueryOutcomes(logs, ParseFilters(params))
    /\ failed' = BadPaging(ParseFilters(params))
    /\ lastOp' = "GET /logs"
    /\ arg' = <<params>>
    /\ UNCHANGED <<now, nextId, healthUrls, config, alarm, health, logs, stats,
                   alarmPc, urls, idx, start, firedAt, added, cleared,
                   dropped, batches,
                   submitted, pending,
                   shard, parked>>

----------------------------------------------------------------------------
(* fetch: POST /stats, GET /stats                                          *)

\* Respond whose catch is missing
RespondUncaught(out) ==
    IF "raised" \in DOMAIN out THEN out ELSE Ok(<<out.value>>)

\* what fetch answers for a method that returned its value bare or raised:
\* Response.json(Ok(result)), or the failure its catch makes of what is
\* raised
Respond(out) ==
    IF "raised" \in DOMAIN out THEN Err(INTERNAL_ERROR) ELSE Ok(<<out.value>>)

\* POST /stats with the body { level?, counts? }: an absent field is None
fetchPostStatsBody(body, failAt) ==
    /\ IF body.counts # None
       THEN LET run == recordStatsBatchRun(stats, getDateKey(now),
                                           body.counts[1], failAt)
            IN  /\ stats' = run.table
                /\ ret' = Respond(run.ret)
                /\ submitted' = IF failAt \in {1, 2} THEN submitted
                                ELSE SubmitAll(submitted, getDateKey(now),
                                               body.counts[1])
       ELSE IF body.level # None
       THEN LET run == recordStatsRun(stats, getDateKey(now), body.level[1],
                                      DefaultCount, failAt)
            IN  /\ stats' = run.table
                /\ ret' = Respond(run.ret)
                /\ submitted' = IF failAt \in {1, 2} THEN submitted
                                ELSE Submit(submitted, getDateKey(now),
                                            toLowerCase(body.level[1]),
                                            DefaultCount)
       ELSE /\ ret' = Err(BAD_REQUEST)
            /\ UNCHANGED <<stats, submitted>>
    /\ failed' = (failAt # 0 /\ (body.counts # None \/ body.level # None))
    /\ lastOp' = "POST /stats"
    /\ arg' = <<body>>
    /\ UNCHANGED <<now, nextId, healthUrls, config, alarm, health, logs,
                   alarmPc, urls, idx, start, firedAt, added, cleared, dropped,
                   batches,
                   shard, parked>>

\* POST /stats with no request of the router in flight changing
fetchPostStats(body, failAt) ==
    fetchPostStatsBody(body, failAt) /\ UNCHANGED pending

\* GET /stats?days=...: days is the text of the parameter, or None
fetchGetStats(days, storeFails) ==
    /\ LET n == IF days # None THEN parseInt(days[1]) ELSE Num(DefaultDays)
       IN  /\ ret' = IF storeFails /\ n.tag = "number" /\ n.n > 0
                     THEN Respond(Raised)
                     ELSE Respond(Returned(getStatsRangeOf(stats,
                                               getDateKey(now), n)))
           /\ failed' = (storeFails /\ n.tag = "number" /\ n.n > 0)
    /\ lastOp' = "GET /stats"
    /\ arg' = <<days>>
    /\ UNCHANGED <<now, nextId, healthUrls, config, alarm, health, logs, stats,
                   alarmPc, urls, idx, start, firedAt, added, cleared, dropped,
                   batches, submitted, pending,
                   shard, parked>>

----------------------------------------------------------------------------
(* pruneLogs                                                               *)

\* Pruned with timestamp <= ?
PrunedUpTo(table, before) == {r \in table : IsoGeq(before, r.timestamp)}

\* Pruned, one instant at a time: the oldest of the rows before the watermark
PrunedOldest(table, before) ==
    {r \in table : /\ ~IsoGeq(r.timestamp, before)
                   /\ \A q \in table : IsoGeq(q.timestamp, r.timestamp)}

\* a DELETE without its WHERE clause
PrunedAll(table, before) == table

\* the rows of DELETE FROM logs WHERE timestamp < ? RETURNING id
Pruned(table, before) == {r \in table : ~IsoGeq(r.timestamp, before)}

\* a prune that also deletes the counters of the dates it empties
pruneLogsAndStats(before, storeFails) ==
    /\ IF storeFails
       THEN /\ ret' = Err(INTERNAL_ERROR)
            /\ UNCHANGED <<logs, stats>>
       ELSE /\ logs' = logs \ Pruned(logs, before)
            /\ stats' = {r \in stats :
                            \E e \in logs \ Pruned(logs, before) :
                                e.timestamp[1] = r.date}
            /\ ret' = Ok(<<[deleted |-> Cardinality(Pruned(logs, before))]>>)
    /\ failed' = storeFails
    /\ lastOp' = "pruneLogs"
    /\ arg' = <<before>>
    /\ UNCHANGED <<now, nextId, healthUrls, config, alarm, health,
                   alarmPc, urls, idx, start, firedAt, added, cleared,
                   dropped, batches,
                   submitted, pending,
                   shard, parked>>

pruneLogs(before, storeFails) ==
    /\ IF storeFails
       THEN /\ ret' = Err(INTERNAL_ERROR)
            /\ UNCHANGED logs
       ELSE /\ logs' = logs \ Pruned(logs, before)
            /\ ret' = Ok(<<[deleted |-> Cardinality(Pruned(logs, before))]>>)
    /\ failed' = storeFails
    /\ lastOp' = "pruneLogs"
    /\ arg' = <<before>>
    /\ UNCHANGED <<now, nextId, healthUrls, config, alarm, health, stats,
                   alarmPc, urls, idx, start, firedAt, added, cleared,
                   dropped, batches,
                   submitted, pending,
                   shard, parked>>

----------------------------------------------------------------------------
(* index.ts: POST /logs                                                    *)

\* most requests of the router that are between their insert and their
\* counter update at one time
MaxPending == 2

\* the entries of a level in a list of inputs or of entries
CountOf(list, level) ==
    Cardinality({i \in DOMAIN list : list[i].level = level})

\* countByLevel(logs): one { level, count } item for each level that occurs
\* in logs, with the number of its entries
countByLevel(list) ==
    LET order == <<"DEBUG", "INFO", "WARN", "ERROR">>
        items == [i \in 1..4 |->
                     [level |-> order[i], count |-> CountOf(list, order[i])]]
        Occurs(item) == item.count > 0
    IN  SelectSeq(items, Occurs)

\* seq without its element number i
RemoveAt(seq, i) == SubSeq(seq, 1, i - 1) \o SubSeq(seq, i + 1, Len(seq))

\* POST /logs that records the counters whatever the insert answered
routerPostLogsUnchecked(body, failAt) ==
    /\ Len(pending) < MaxPending
    /\ IF "logs" \in DOMAIN body
       THEN logBatchBody(body.logs, failAt)
       ELSE logBody(body, failAt # 0)
    /\ pending' = Append(pending, [body |-> body, result |-> ret'])

\* app.post('/logs') up to the answer of the insert: POST /logs of the
\* object for a body with logs, POST /log for any other; with result.ok the
\* handler goes on to its POST /stats, without it the request is over
routerPostLogs(body, failAt) ==
    /\ Len(pending) < MaxPending
    /\ IF "logs" \in DOMAIN body
       THEN logBatchBody(body.logs, failAt)
       ELSE logBody(body, failAt # 0)
    /\ pending' = IF ret'.ok
                  THEN Append(pending, [body |-> body, result |-> ret'])
                  ELSE pending

\* app.post('/logs') from its POST /stats on, for the request number i of
\* those in flight: { counts: countByLevel(body.logs) } for a body with
\* logs, { level: body.level } for any other; then c.json(result)
routerRecordStats(i) ==
    /\ i \in DOMAIN pending
    /\ LET body == pending[i].body
       IN  fetchPostStatsBody(
               IF "logs" \in DOMAIN body
               THEN [level |-> None, counts |-> Some(countByLevel(body.logs))]
               ELSE [level |-> Some(body.level), counts |-> None], 0)
    /\ pending' = RemoveAt(pending, i)

----------------------------------------------------------------------------
(* One object per app                                                      *)

\* what belongs to the object the variables describe: this.sql (its four
\* tables), this.healthUrls, its alarm and the position of its handler
Object ==
    [healthUrls |-> healthUrls, config |-> config, alarm |-> alarm,
     health |-> health, logs |-> logs, stats |-> stats, alarmPc |-> alarmPc,
     urls |-> urls, idx |-> idx, start |-> start, firedAt |-> firedAt,
     added |-> added, cleared |-> cleared, dropped |-> dropped,
     batches |-> batches, submitted |-> submitted]

\* the object of an app
ObjectOf(app) == IF app = shard THEN Object ELSE parked[app]

\* the platform runs the object of another app: the variables describe that
\* one from now on, and the one they described is kept as it is
Switch(app) ==
    /\ app # shard
    /\ shard' = app
    /\ parked' = [other \in Apps \ {app} |->
                     IF other = shard THEN Object ELSE parked[other]]
    /\ healthUrls' = parked[app].healthUrls
    /\ config' = parked[app].config
    /\ alarm' = parked[app].alarm
    /\ health' = parked[app].health
    /\ logs' = parked[app].logs
    /\ stats' = parked[app].stats
    /\ alarmPc' = parked[app].alarmPc
    /\ urls' = parked[app].urls
    /\ idx' = parked[app].idx
    /\ start' = parked[app].start
    /\ firedAt' = parked[app].firedAt
    /\ added' = parked[app].added
    /\ cleared' = parked[app].cleared
    /\ dropped' = parked[app].dropped
    /\ batches' = parked[app].batches
    /\ submitted' = parked[app].submitted
    /\ lastOp' = "switch"
    /\ arg' = NoArg
    /\ ret' = NoRet
    /\ UNCHANGED <<now, nextId, pending, failed>>

\* getAppDO(env, appId): the object named by the app id
getAppDO(appId) == appId

\* a router that sends every request to the object of the first app
StubOfFirst(appId) == getAppDO("A")

\* const stub = getAppDO(c.env, appId)
Stub(appId) == getAppDO(appId)

----------------------------------------------------------------------------
(* index.ts: POST /apps/:app_id/prune, POST /apps/:app_id/health-urls      *)

\* body.before: absent, or a string (the empty one has no text)
NoBefore == [tag |-> "undefined", text |-> <<>>]
Before(text) == [tag |-> "string", text |-> text]

\* body.urls: absent, a string, or an array
NoUrls == [tag |-> "undefined", list |-> <<>>]
UrlsText == [tag |-> "string", list |-> <<>>]
UrlsArray(list) == [tag |-> "array", list |-> list]

\* !body.before
NotBefore(before) == before.tag = "undefined" \/ before.text = <<>>

\* !body.urls || !Array.isArray(body.urls)
NotUrls(given) == given.tag # "array"

\* return c.json(Err({ code, message }), status): the handler ends before
\* it asks for a stub
Reject(route, request, status, code) ==
    /\ lastOp' = route
    /\ arg' = <<request>>
    /\ ret' = [status |-> status, body |-> Err(code)]
    /\ failed' = FALSE
    /\ UNCHANGED <<now, nextId, healthUrls, config, alarm, health, logs, stats,
                   alarmPc, urls, idx, start, firedAt, added, cleared,
                   dropped, batches, submitted, pending, shard, parked>>

\* the prune route without the comparison of the two app ids
routerPruneAnyApp(appId, authenticatedAppId, body) ==
    IF NotBefore(body.before)
    THEN Reject("POST /apps/:app_id/prune",
                [appId |-> appId, authenticatedAppId |-> authenticatedAppId,
                 body |-> body], 400, BAD_REQUEST)
    ELSE Stub(appId) = shard /\ pruneLogs(body.before.text, FALSE)

\* app.post('/apps/:app_id/prune'): appId is the path parameter,
\* authenticatedAppId what requireApiKey has set
routerPrune(appId, authenticatedAppId, body) ==
    IF appId # authenticatedAppId
    THEN Reject("POST /apps/:app_id/prune",
                [appId |-> appId, authenticatedAppId |-> authenticatedAppId,
                 body |-> body], 403, UNAUTHORIZED)
    ELSE IF NotBefore(body.before)
    THEN Reject("POST /apps/:app_id/prune",
                [appId |-> appId, authenticatedAppId |-> authenticatedAppId,
                 body |-> body], 400, BAD_REQUEST)
    ELSE Stub(appId) = shard /\ pruneLogs(body.before.text, FALSE)

\* app.post('/apps/:app_id/health-urls')
routerHealthUrls(appId, authenticatedAppId, body) ==
    IF appId # authenticatedAppId
    THEN Reject("POST /apps/:app_id/health-urls",
                [appId |-> appId, authenticatedAppId |-> authenticatedAppId,
                 body |-> body], 403, UNAUTHORIZED)
    ELSE IF NotUrls(body.urls)
    THEN Reject("POST /apps/:app_id/health-urls",
                [appId |-> appId, authenticatedAppId |-> authenticatedAppId,
                 body |-> body], 400, BAD_REQUEST)
    ELSE Stub(appId) = shard /\ setHealthUrls(body.urls.list, FALSE)

----------------------------------------------------------------------------
(* dashboard/brand.ts                                                      *)

\* a string is the sequence of its characters
HexDigits ==
    {"0", "1", "2", "3", "4", "5", "6", "7", "8", "9",
     "a", "b", "c", "d", "e", "f", "A", "B", "C", "D", "E", "F"}

HexValue(c) ==
    CASE c \in {"a", "A"} -> 10 [] c \in {"b", "B"} -> 11
      [] c \in {"c", "C"} -> 12 [] c \in {"d", "D"} -> 13
      [] c \in {"e", "E"} -> 14 [] c \in {"f", "F"} -> 15
      [] OTHER -> DigitValue(c)

\* /^#?[0-9a-fA-F]{6}/, the pattern without its end anchor
HexColorPrefix(text) ==
    LET rest == IF text # <<>> /\ Head(text) = "#" THEN Tail(text) ELSE text
    IN  Len(rest) >= 6 /\ \A i \in 1..6 : rest[i] \in HexDigits

\* HEX_COLOR_RE.test(text), /^#?[0-9a-fA-F]{6}$/
HEX_COLOR_RE(text) ==
    LET rest == IF text # <<>> /\ Head(text) = "#" THEN Tail(text) ELSE text
    IN  Len(rest) = 6 /\ \A i \in 1..6 : rest[i] \in HexDigits

\* text.replace(/^#/, '')
StripHash(text) ==
    IF text # <<>> /\ Head(text) = "#" THEN Tail(text) ELSE text

\* text.substring(from, to), positions counted from 0
substring(text, from, to) ==
    LET hi == IF to > Len(text) THEN Len(text) ELSE to
    IN  IF from >= hi THEN <<>> ELSE SubSeq(text, from + 1, hi)

RECURSIVE HexDigitsValue(_, _)
HexDigitsValue(text, acc) ==
    IF text = <<>> \/ Head(text) \notin HexDigits THEN acc
    ELSE HexDigitsValue(Tail(text), 16 * acc + HexValue(Head(text)))

\* parseInt(text, 16): the value of the leading hex digits, NaN without one
parseInt16(text) ==
    IF text = <<>> \/ Head(text) \notin HexDigits THEN NaN
    ELSE Num(HexDigitsValue(text, 0))

\* n.toString(radix) of an integer n >= 0, radix 10 or 16
RECURSIVE toString(_, _)
toString(n, radix) ==
    LET digits == <<"0", "1", "2", "3", "4", "5", "6", "7", "8", "9",
                    "a", "b", "c", "d", "e", "f">>
        last == <<digits[(n % radix) + 1]>>
    IN  IF n < radix THEN last ELSE toString(n \div radix, radix) \o last

\* `${x}` of a number: its decimal digits, or NaN
Template(x) ==
    IF x.tag = "NaN" THEN <<"N", "a", "N">> ELSE toString(x.n, 10)

\* text.padStart(2, '0')
padStart2(text) == IF Len(text) < 2 THEN <<"0">> \o text ELSE text

\* `rgba(${r}, ${g}, ${b}, ${alpha})`; alpha is given as its text
Rgba(r, g, b, alpha) ==
    <<"r", "g", "b", "a", "(">> \o r \o <<",", " ">> \o g \o <<",", " ">>
        \o b \o <<",", " ">> \o alpha \o <<")">>

hexToRgbaOf(hex, alpha) ==
    IF ~HEX_COLOR_RE(hex)
    THEN Rgba(<<"0">>, <<"0">>, <<"0">>, alpha)
    ELSE LET cleanHex == StripHash(hex)
             r == parseInt16(substring(cleanHex, 0, 2))
             g == parseInt16(substring(cleanHex, 2, 4))
             b == parseInt16(substring(cleanHex, 4, 6))
         IN  Rgba(Template(r), Template(g), Template(b), alpha)

\* DEFAULT_BRAND_CONFIG.accentColor, '#FF4F03'
DefaultAccent == <<"#", "F", "F", "4", "F", "0", "3">>

\* Math.floor of a number that may be NaN
Floor(x, n) == IF x.tag = "NaN" THEN NaN ELSE Num(n)

\* `#${r.toString(16).padStart(2, '0')}${g...}${b...}`; NaN.toString(16) is
\* 'NaN'
HexColor(r, g, b) ==
    LET two(x) == IF x.tag = "NaN" THEN <<"N", "a", "N">>
                  ELSE padStart2(toString(x.n, 16))
    IN  <<"#">> \o two(r) \o two(g) \o two(b)

\* the fields of the result that come from the accent.  Math.floor(r * 0.9)
\* is (9 r) div 10 and Math.floor(r + (255 - r) * 0.15) is
\* r + (15 (255 - r)) div 100 for every byte r; Math.max(0, .) and
\* Math.min(255, .) change nothing on bytes.
AccentFields(accentHex, base) ==
    LET r == parseInt16(substring(StripHash(base), 0, 2))
        g == parseInt16(substring(StripHash(base), 2, 4))
        b == parseInt16(substring(StripHash(base), 4, 6))
        hover(x) == Floor(x, (9 * x.n) \div 10)
        light(x) == Floor(x, x.n + (15 * (255 - x.n)) \div 100)
    IN  [accentColor |-> accentHex,
         accentHoverColor |-> HexColor(hover(r), hover(g), hover(b)),
         accentLightColor |-> HexColor(light(r), light(g), light(b)),
         accentDimColor |-> hexToRgbaOf(base, <<"0", ".", "1", "2">>),
         accentGlowColor |-> hexToRgbaOf(base, <<"0", ".", "0", "8">>),
         accentBorderColor |-> hexToRgbaOf(base, <<"0", ".", "3">>)]

\* getBrandConfig that derives the variants from the raw value
getBrandConfigRaw(accent) ==
    LET rawAccent == IF accent = None \/ accent[1] = <<>> THEN DefaultAccent
                     ELSE accent[1]
        accentHex == IF HEX_COLOR_RE(rawAccent) THEN rawAccent
                     ELSE DefaultAccent
    IN  AccentFields(accentHex, rawAccent)

\* getBrandConfig(env), for env.BRAND_ACCENT = accent: None when it is not
\* set, Some(text) when it is
getBrandConfigOf(accent) ==
    LET rawAccent == IF accent = None \/ accent[1] = <<>> THEN DefaultAccent
                     ELSE accent[1]
        accentHex == IF HEX_COLOR_RE(rawAccent) THEN rawAccent
                     ELSE DefaultAccent
    IN  AccentFields(accentHex, accentHex)

\* the calls, on the text that was drawn
hexToRgba(alpha) ==
    /\ lastOp = "input"
    /\ lastOp' = "hexToRgba"
    /\ arg' = <<arg[1], alpha>>
    /\ ret' = [text |-> hexToRgbaOf(arg[1], alpha)]
    /\ UNCHANGED <<now, nextId, healthUrls, config, alarm, health, logs, stats,
                   alarmPc, urls, idx, start, firedAt, added, cleared,
                   dropped, batches, submitted, pending, failed, shard,
                   parked>>

getBrandConfig(set) ==
    /\ lastOp = "input"
    /\ lastOp' = "getBrandConfig"
    /\ arg' = <<IF set THEN Some(arg[1]) ELSE None>>
    /\ ret' = getBrandConfigOf(IF set THEN Some(arg[1]) ELSE None)
    /\ UNCHANGED <<now, nextId, healthUrls, config, alarm, health, logs, stats,
                   alarmPc, urls, idx, start, firedAt, added, cleared,
                   dropped, batches, submitted, pending, failed, shard,
                   parked>>

----------------------------------------------------------------------------
(* Specifications                                                          *)

\* what fetch() can do: answer with a status, fail at once, or be aborted
FetchOutcomes ==
    {<<st, ProbeMs>> : st \in Statuses} \cup {<<0, 0>>, <<0, ProbeTimeoutMs>>}

Probe ==
    \E o \in FetchOutcomes, f1, f2 \in BOOLEAN : FetchDone(o[1], o[2], f1, f2)

\* the health scheduler: any interleaving of setHealthUrls calls (one URL at
\* most), timer fires, probes and evictions
HealthNext ==
    \/ \E list \in SeqsUpTo(URLS, 1), f \in BOOLEAN : setHealthUrls(list, f)
    \/ Tick
    \/ AlarmStart
    \/ Probe
    \/ Evict

\* the fires of a list that is configured once
ProbeNext ==
    \/ \E list \in UrlLists : config = None /\ setHealthUrls(list, FALSE)
    \/ Tick
    \/ AlarmStart
    \/ Probe

\* ingestion alone
IngestNext ==
    \/ \E input \in LogInput, f \in BOOLEAN : log(input, f)
    \/ Evict

\* the inputs of the whole-shard specification: bare entries
BareInputs ==
    {input \in LogInput : /\ input.level \in {"INFO", "TRACE"}
                          /\ input.message = "start"
                          /\ input.context = None
                          /\ input.request_id = None}

\* the whole shard: every operation, one URL, bare log entries; the store
\* fails under setHealthUrls only (its failures under the probes are those
\* of ProbeNext)
Next ==
    \/ \E list \in SeqsUpTo({"a"}, 1), f \in BOOLEAN : setHealthUrls(list, f)
    \/ Tick
    \/ AlarmStart
    \/ \E o \in FetchOutcomes : FetchDone(o[1], o[2], FALSE, FALSE)
    \/ Evict
    \/ \E input \in BareInputs : log(input, FALSE)
    \/ recordStats("INFO", Undefined, 0) /\ WithinCount(stats')

\* milliseconds that pass between the batches: two batches fall in the same
\* millisecond or in different ones
MaxBatchTicks == 1

\* the input of the single entries: it has a context, the inputs of the
\* batches have none
SingleInputs ==
    {input \in LogInput : /\ input.level = "INFO"
                          /\ input.message = "start"
                          /\ input.context # None
                          /\ input.request_id = None}

\* the writers of table logs and the unfiltered query: batches, single
\* entries, query({}), time passing.  The store refuses the first INSERT of
\* a batch or none; the CHECK on level refuses an INSERT at any position.
BatchNext ==
    \/ \E inputs \in SeqsUpTo(BatchInputs, MaxBatch), failAt \in {0, 1} :
          failAt <= Len(inputs) /\ logBatch(inputs, failAt)
    \/ \E input \in SingleInputs : log(input, FALSE)
    \/ query(NoFilters, FALSE)
    \/ now < MaxBatchTicks /\ Elapse

\* the entries the queries run on: they differ in level, message, context
\* and request id
QueryInputs ==
    {[level |-> "INFO", message |-> "start", context |-> None,
      request_id |-> None],
     [level |-> "ERROR", message |-> "Start",
      context |-> Some(<< <<"path", "/a">>, <<"status", "200">> >>),
      request_id |-> Some("r1")],
     [level |-> "ERROR", message |-> "start",
      context |-> Some(<< <<"path", "/a">> >>), request_id |-> None]}

\* the values a caller gives each filter
FilterChoices ==
    [level : {None, Some("ERROR")},
     since : {None, Some(toISOString(1))},
     until : {None, Some(toISOString(1))},
     request_id : {None, Some("r1")},
     search : {None, Some("Start")},
     context : {None, Some(<< <<"path", "/a">> >>),
                Some(<< <<"path", "/a">>, <<"status", "200">> >>)},
     limit : {Undefined, Num(1)},
     offset : {Undefined, Num(1)}]

\* the fields of QueryFilters a caller has set
Supplied(filters) ==
    {k \in {"level", "since", "until", "request_id", "search", "context"} :
        filters[k] # None}
    \cup {k \in {"limit", "offset"} : filters[k] # Undefined}

\* the queries: at most two fields set
QueryFilterSet ==
    {filters \in FilterChoices :
        \E k1, k2 \in DOMAIN filters : Supplied(filters) \subseteq {k1, k2}}

\* the input has been logged
Logged(input) ==
    \E r \in logs : /\ r.level = input.level
                    /\ r.message = input.message
                    /\ RowEntry(r).context = input.context
                    /\ r.request_id = input.request_id

\* queries on a store written by log, each input logged once, in any order
\* and at any time
QueryNext ==
    \/ \E input \in QueryInputs : ~Logged(input) /\ log(input, FALSE)
    \/ \E filters \in QueryFilterSet : query(filters, FALSE)
    \/ Elapse

\* the search parameters of the requests
ParamChoices ==
    {<<Key("limit"), <<"1">>>>, <<Key("limit"), <<"a", "b", "c">>>>,
     <<Key("offset"), <<"x">>>>, <<Key("level"), "ERROR">>,
     <<ContextKey("path"), "/a">>, <<Key("verbose"), "1">>}

\* most parameters of one request
MaxParams == 2

ParamLists ==
    {params \in SeqsUpTo(ParamChoices, MaxParams) :
        \A i, j \in 1..Len(params) : i # j => params[i][1] # params[j][1]}

\* GET /logs requests on a store written by log
FetchNext ==
    \/ \E input \in QueryInputs : ~Logged(input) /\ log(input, FALSE)
    \/ \E params \in ParamLists : fetchLogs(params)
    \/ Elapse

\* the watermarks callers pass: the instants of the clock
Watermarks == {toISOString(t) : t \in 0..MaxTicks}

\* pruning a store written by log
PruneNext ==
    \/ \E input \in QueryInputs : log(input, FALSE)
    \/ \E before \in Watermarks : pruneLogs(before, FALSE)
    \/ Elapse

\* the days of the counters: the clock passes midnight once
StatDays == {0, 1}

\* the clock passes into the next day
Midnight ==
    /\ getDateKey(now) + 1 \in StatDays
    /\ now' = (getDateKey(now) + 1) * DayMs
    /\ lastOp' = "midnight"
    /\ arg' = NoArg
    /\ ret' = NoRet
    /\ UNCHANGED <<nextId, healthUrls, config, alarm, health, logs, stats,
                   alarmPc, urls, idx, start, firedAt, added, cleared,
                   dropped, batches, submitted, pending, failed,
                   shard, parked>>

\* largest counter value the specifications of the counters let a day reach
MaxStat == 4

WithinStat(table) ==
    \A r \in table : \A column \in Columns :
        r[column] <= MaxStat /\ r[column] >= 0 - MaxStat

\* the items callers pass: two levels, the default count and two counts
StatItems ==
    {[level |-> "INFO", count |-> 1], [level |-> "INFO", count |-> 3],
     [level |-> "ERROR", count |-> 1]}

\* the lists callers pass to recordStatsBatch: of no, one or two items
StatLists ==
    {<<>>} \cup {<<a>> : a \in StatItems}
           \cup {<<a, b>> : a \in StatItems, b \in StatItems}

\* the arguments of recordStats: the items, and the levels alone
StatCalls ==
    {<<a.level, Num(a.count)>> : a \in StatItems}
        \cup {<<a.level, Undefined>> : a \in StatItems}

\* the dates callers ask for: none (today), a day of the clock, a day before
StatDates == {None} \cup {Some(d) : d \in StatDays} \cup {Some(0 - 1)}

\* the day counts callers ask for
StatRanges == {Undefined, NaN, Num(0 - 1), Num(0), Num(1), Num(2)}

\* the counters alone, on a store that works
StatsNext ==
    \/ \E c \in StatCalls : recordStats(c[1], c[2], 0) /\ WithinStat(stats')
    \/ \E counts \in StatLists :
          recordStatsBatch(counts, 0) /\ WithinStat(stats')
    \/ \E date \in StatDates : getStats(date, FALSE)
    \/ \E days \in StatRanges : getStatsRange(days, FALSE)
    \/ Midnight

\* the bodies of POST /stats: a level, a list of counts (one of them with a
\* count below zero), neither
StatBodies ==
    {[level |-> Some("INFO"), counts |-> None],
     [level |-> Some("ERROR"), counts |-> None],
     [level |-> None, counts |-> Some(<<>>)],
     [level |-> None, counts |-> Some(<<[level |-> "INFO", count |-> 3],
                                       [level |-> "ERROR", count |-> 1]>>)],
     [level |-> None, counts |-> Some(<<[level |-> "INFO", count |-> 0 - 1]>>)],
     [level |-> None, counts |-> None]}

\* the days parameter of GET /stats: absent, a number, no number
StatParams == {None, Some(<<"2">>), Some(<<"0">>), Some(<<"a">>)}

\* the statements of recordStats and recordStatsBatch: INSERT, UPDATE, SELECT
StatStatements == 1..3

\* the counters through the routes of fetch, on a store that may fail
StatsFetchNext ==
    \/ \E body \in StatBodies, failAt \in {0} \cup StatStatements :
          fetchPostStats(body, failAt) /\ WithinStat(stats')
    \/ \E days \in StatParams, storeFails \in BOOLEAN :
          fetchGetStats(days, storeFails)
    \/ Midnight

\* the counters while the health scheduler runs: calls of recordStats and
\* recordStatsBatch between the steps of a fire, also while the handler
\* awaits fetch(), and evictions
ConcurrentNext ==
    \/ config = None /\ setHealthUrls(<<"a">>, FALSE)
    \/ Tick
    \/ AlarmStart
    \/ \E o \in FetchOutcomes : FetchDone(o[1], o[2], FALSE, FALSE)
    \/ Evict
    \/ \E level \in {"INFO", "ERROR"} :
          recordStats(level, Undefined, 0) /\ WithinStat(stats')
    \/ \E counts \in {<<[level |-> "INFO", count |-> 3],
                        [level |-> "ERROR", count |-> 1]>>,
                      <<[level |-> "INFO", count |-> 1],
                        [level |-> "INFO", count |-> 1]>>} :
          recordStatsBatch(counts, 0) /\ WithinStat(stats')

\* the input of the entry specification: one bare entry
EntryInput ==
    [level |-> "INFO", message |-> "start", context |-> None,
     request_id |-> None]

\* every entry point on a store that may fail, and the timer: one URL set
\* once, probes that are answered, one log input, one counter per call; a
\* counter update that fails does so at its UPDATE, after the row is there
EntryNext ==
    \/ \E f \in BOOLEAN : config = None /\ setHealthUrls(<<"a">>, f)
    \/ Tick
    \/ AlarmStart
    \/ \E st \in Statuses : FetchDone(st, ProbeMs, FALSE, FALSE)
    \/ \E f \in BOOLEAN : log(EntryInput, f)
    \/ \E failAt \in {0, 1} : logBatch(<<EntryInput>>, failAt)
    \/ \E f \in BOOLEAN : query(NoFilters, f)
    \/ \E f \in BOOLEAN : pruneLogs(toISOString(DayMs), f)
    \/ \E f \in BOOLEAN : getHealthHistory(Some("a"), Num(1), f)
    \/ \E failAt \in {0, 2} :
          recordStats("INFO", Undefined, failAt) /\ WithinCount(stats')
    \/ \E failAt \in {0, 2} :
          /\ recordStatsBatch(<<[level |-> "INFO", count |-> 1]>>, failAt)
          /\ WithinCount(stats')
    \/ \E f \in BOOLEAN : getStats(None, f)
    \/ \E f \in BOOLEAN : getStatsRange(Num(1), f)
    \/ \E failAt \in {0, 2} :
          /\ fetchPostStats([level |-> Some("INFO"), counts |-> None], failAt)
          /\ WithinCount(stats')
    \/ \E f \in BOOLEAN : fetchGetStats(None, f)

\* the bodies of the router's requests: one entry, one entry of a level the
\* CHECK refuses, a batch of two levels, a batch whose second entry the
\* CHECK refuses, and the empty batch
RouterBodies ==
    LET entry(level) == [level |-> level, message |-> "start",
                         context |-> None, request_id |-> None]
    IN  {entry("INFO"), entry("TRACE"),
         [logs |-> <<entry("INFO"), entry("ERROR")>>],
         [logs |-> <<entry("INFO"), entry("TRACE")>>],
         [logs |-> <<>>]}

\* the router: POST /logs requests whose insert may fail, each followed by
\* its counter update when the insert succeeded, other requests and
\* midnight in between
RouterNext ==
    \/ \E body \in RouterBodies, failAt \in {0, 1} : routerPostLogs(body, failAt)
    \/ \E i \in DOMAIN pending : routerRecordStats(i) /\ WithinStat(stats')
    \/ Midnight

\* the watermarks of the specification of the entries: the first fire of the
\* timer, and the end of the first day
EntryWatermarks == {toISOString(FirstDelayMs), toISOString(DayMs)}

\* the batches of the specification of the entries: two entries, and one
\* whose second entry the CHECK refuses
EntryBatches ==
    {<<EntryInput, EntryInput>>,
     <<EntryInput, [EntryInput EXCEPT !.level = "TRACE"]>>}

\* the life of the entries: inserts that succeed, fail and fail half-way,
\* prunes at two watermarks, and every other writer of the store (counter
\* updates, the timer, evictions) and the query in between
EntriesNext ==
    \/ config = None /\ setHealthUrls(<<"a">>, FALSE)
    \/ Tick
    \/ AlarmStart
    \/ \E st \in Statuses : FetchDone(st, ProbeMs, FALSE, FALSE)
    \/ Evict
    \/ \E f \in BOOLEAN : log(EntryInput, f)
    \/ \E inputs \in EntryBatches : logBatch(inputs, 0)
    \/ query(NoFilters, FALSE)
    \/ \E before \in EntryWatermarks : pruneLogs(before, FALSE)
    \/ recordStats("INFO", Undefined, 0) /\ WithinCount(stats')

\* what each app sends: its own message, its own URL, its own level
MessageOf(app) == IF app = "A" THEN "start" ELSE "Start"
UrlOf(app) == IF app = "A" THEN "a" ELSE "b"
LevelOf(app) == IF app = "A" THEN "INFO" ELSE "ERROR"

\* the two-app specification lets the clock start one wait, draws three ids
\* and counts to one
TenantStarts == {0}
TenantIds == {0, 1, 2}
TenantStats ==
    {{}} \cup {{[ZeroStats(0) EXCEPT ![column] = 1]} : column \in Columns}

\* two apps: the requests of each reach the object its stub names, the
\* timer of each object fires, and the platform runs one object or the other
TenantNext ==
    \/ \E app \in Apps : Switch(app)
    \/ \E app \in Apps :
          /\ Stub(app) = shard
          /\ config = None
          /\ setHealthUrls(<<UrlOf(app)>>, FALSE)
    \/ now \in TenantStarts /\ Tick
    \/ AlarmStart
    \/ \E st \in Statuses :
          nextId \in TenantIds /\ FetchDone(st, ProbeMs, FALSE, FALSE)
    \/ \E app \in Apps :
          /\ Stub(app) = shard
          /\ nextId \in TenantIds
          /\ log([level |-> "INFO", message |-> MessageOf(app),
                  context |-> None, request_id |-> None], FALSE)
    \/ \E app \in Apps : Stub(app) = shard /\ query(NoFilters, FALSE)
    \/ \E app \in Apps :
          /\ Stub(app) = shard
          /\ pruneLogs(toISOString(FirstDelayMs), FALSE)
    \/ \E app \in Apps :
          /\ Stub(app) = shard
          /\ recordStats(LevelOf(app), Undefined, 0)
          /\ stats' \in TenantStats

\* what each app prunes with: its own watermark
WatermarkOf(app) ==
    IF app = "A" THEN toISOString(FirstDelayMs) ELSE toISOString(DayMs)

\* the bodies an app sends to the prune route: without before, with the
\* empty string, with its watermark
PruneBodies(app) ==
    {[before |-> NoBefore], [before |-> Before(<<>>)],
     [before |-> Before(WatermarkOf(app))]}

\* the bodies an app sends to the health-urls route: without urls, with a
\* string, with the array of its URL
UrlBodies(app) ==
    {[urls |-> NoUrls], [urls |-> UrlsText],
     [urls |-> UrlsArray(<<UrlOf(app)>>)]}

\* the two routes with a path parameter, called by either app for either
\* app, between the inserts of both apps and the fires of their timers
GateNext ==
    \/ \E app \in Apps : Switch(app)
    \/ \E appId, authenticatedAppId \in Apps :
          \E body \in PruneBodies(authenticatedAppId) :
              routerPrune(appId, authenticatedAppId, body)
    \/ \E appId, authenticatedAppId \in Apps :
          \E body \in UrlBodies(authenticatedAppId) :
              /\ config = None
              /\ routerHealthUrls(appId, authenticatedAppId, body)
    \/ now \in TenantStarts /\ Tick
    \/ AlarmStart
    \/ \E st \in Statuses :
          nextId \in TenantIds /\ FetchDone(st, ProbeMs, FALSE, FALSE)
    \/ \E app \in Apps :
          /\ Stub(app) = shard
          /\ nextId \in TenantIds
          /\ log([level |-> "INFO", message |-> MessageOf(app),
                  context |-> None, request_id |-> None], FALSE)

\* most characters of a text given as a colour, after its mark
MaxHexLen == 7

\* the characters of the colours: a digit, a letter in both cases, and a
\* letter that is no hex digit
BrandChars == {"3", "f", "F", "G"}

\* the texts given as a colour, with the mark # in front or without it
BrandTexts ==
    {mark \o rest : mark \in {<<>>, <<"#">>},
                    rest \in SeqsUpTo(BrandChars, MaxHexLen)}

\* a text is drawn; nothing else has happened
BrandInit ==
    /\ now = 0
    /\ nextId = 0
    /\ healthUrls = <<>>
    /\ config = None
    /\ alarm = NoAlarm
    /\ health = {}
    /\ logs = {}
    /\ stats = {}
    /\ alarmPc = "idle"
    /\ urls = <<>>
    /\ idx = 0
    /\ start = 0
    /\ firedAt = NoAlarm
    /\ added = [u \in URLS |-> 0]
    /\ lastOp = "input"
    /\ arg \in {<<text>> : text \in BrandTexts}
    /\ ret = NoRet
    /\ cleared = FALSE
    /\ dropped = {}
    /\ batches = <<>>
    /\ submitted = {}
    /\ pending = <<>>
    /\ failed = FALSE
    /\ shard = "A"
    /\ parked = [app \in Apps \ {"A"} |-> NewObject]

\* the two functions of brand.ts, each applied to the text drawn
BrandNext ==
    \/ hexToRgba(<<"0", ".", "5">>)
    \/ \E set \in BOOLEAN : getBrandConfig(set)

Spec == Init /\ [][Next]_vars

BrandSpec == BrandInit /\ [][BrandNext]_vars

GateSpec == Init /\ [][GateNext]_vars

TenantSpec == Init /\ [][TenantNext]_vars

EntriesSpec == Init /\ [][EntriesNext]_vars

RouterSpec == Init /\ [][RouterNext]_vars

EntrySpec == Init /\ [][EntryNext]_vars

ConcurrentSpec == Init /\ [][ConcurrentNext]_vars

StatsFetchSpec == Init /\ [][StatsFetchNext]_vars

StatsSpec == Init /\ [][StatsNext]_vars

PruneSpec == Init /\ [][PruneNext]_vars

FetchSpec == Init /\ [][FetchNext]_vars

QuerySpec == Init /\ [][QueryNext]_vars

BatchSpec == Init /\ [][BatchNext]_vars

HealthSpec == Init /\ [][HealthNext]_vars

ProbeSpec == Init /\ [][ProbeNext]_vars

IngestSpec == Init /\ [][IngestNext]_vars

\* the platform runs the handler of a due alarm, time passes, and fetch()
\* settles (by the abort at the latest)
HealthLive ==
    /\ HealthSpec
    /\ WF_vars(Tick)
    /\ WF_vars(AlarmStart)
    /\ WF_vars(Probe)

----------------------------------------------------------------------------
(* Claims                                                                  *)

\* a step of the alarm handler that starts a fire
FireStarts == lastOp' \in {"alarmStart", "alarmNoop"}

\* a step of the alarm handler that returns normally
FireReturns == lastOp' \in {"alarmEnd", "alarmNoop"}

\* a step in which fetch() settled
ProbeStep == lastOp' \in {"probe", "alarmEnd", "alarmThrow"}

\* C1: the shard has one alarm slot, so at most one timer is pending; a
\* setHealthUrls call made while a timer is pending (success or failure)
\* leaves the pending fire time as it was.
C1_OnePendingTimer ==
    [][(lastOp' = "setHealthUrls" /\ alarm # NoAlarm) => alarm' = alarm]_vars

\* C1 happens: a non-empty list was set while a timer armed earlier was
\* pending
C1_Witness ==
    /\ lastOp = "setHealthUrls"
    /\ ret.ok
    /\ Len(arg[1]) > 0
    /\ alarm # NoAlarm
    /\ alarm # now + FirstDelayMs

\* C2 as claimed: a fire that returns re-arms, 5 minutes ahead, exactly when
\* the persisted list is non-empty at that moment.
C2_RearmIffListNonEmptyAtEnd ==
    [][FireReturns =>
         IF StoredUrls(config') # <<>>
         THEN alarm' = now' + NextDelayMs
         ELSE alarm' = NoAlarm]_vars

\* C3: a successful setHealthUrls(list) made while no timer is pending
\* persists the list and arms one timer 60 s ahead when the list is
\* non-empty, none when it is empty.
C3_FirstArm ==
    [][(lastOp' = "setHealthUrls" /\ ret'.ok /\ alarm = NoAlarm) =>
         /\ StoredUrls(config') = arg'[1]
         /\ alarm' = IF Len(arg'[1]) > 0 THEN now + FirstDelayMs ELSE NoAlarm]_vars

\* C3 happens: a non-empty list was set with no timer pending, later than
\* the start of the run
C3_Witness ==
    /\ lastOp = "setHealthUrls"
    /\ ret.ok
    /\ Len(arg[1]) > 0
    /\ StoredUrls(config) = arg[1]
    /\ alarm = now + FirstDelayMs
    /\ now > 0

\* the bounds of the model stop the run: the pending timer is due after
\* MaxClock, or the handler waits for a fetch() the bounds do not let settle
Horizon ==
    \/ alarm # NoAlarm /\ alarm > MaxClock
    \/ alarmPc = "fetch" /\ ~ENABLED Probe
    \/ alarmPc = "idle" /\ alarm # NoAlarm /\ now >= alarm /\ ~ENABLED AlarmStart

\* C4 as claimed: once setHealthUrls([]) has succeeded and while no later
\* call has set a non-empty list (cleared), the next fire that starts records
\* nothing and does not re-arm; after it no timer is pending and none
\* becomes pending; and the shard gets there (or the run reaches the horizon
\* of the model).
C4_SoftCancel ==
    /\ [][(cleared /\ FireStarts) =>
            (lastOp' = "alarmNoop" /\ health' = health /\ alarm' = NoAlarm)]_vars
    /\ [][(cleared /\ cleared' /\ alarmPc = "idle" /\ alarm = NoAlarm) =>
            (alarm' = NoAlarm /\ alarmPc' = "idle")]_vars
    /\ (cleared ~> (~cleared \/ (alarm = NoAlarm /\ alarmPc = "idle") \/ Horizon))

\* C5 as claimed: no fire throws, and a probe that failed is recorded with
\* status 0 and the elapsed time.
C5_FireNeverThrows ==
    [][ProbeStep =>
         /\ lastOp' # "alarmThrow"
         /\ arg'[1].status = 0 =>
               \E r \in health' : /\ r \notin health
                                   /\ r.url = urls[idx]
                                   /\ r.status = 0
                                   /\ r.latency_ms = now' - start]_vars

\* C6 as claimed: when a fire ends, it has inserted one row for each URL of
\* its list and none for any other.
C6_OneRecordPerUrl ==
    [][(lastOp' \in {"alarmEnd", "alarmThrow"}) =>
         \A u \in URLS : added'[u] = (IF u \in Range(urls) THEN 1 ELSE 0)]_vars

\* C7: every url has at most KeepLimit rows; once a row of a url was
\* deleted the url has exactly KeepLimit rows, and no deleted row of a url is
\* newer than a row the url still has.
C7_TrimKeepsMostRecent ==
    \A u \in URLS :
        LET kept == {r \in health : r.url = u}
            gone == {r \in dropped : r.url = u}
        IN  /\ Cardinality(kept) <= KeepLimit
            /\ gone # {} => Cardinality(kept) = KeepLimit
            /\ \A r \in gone, k \in kept : IsoGeq(k.checked_at, r.checked_at)

\* C7 happens: a row was deleted by the trim
C7_Witness ==
    /\ dropped # {}
    /\ \E r \in dropped, k \in health : r.url = k.url /\ r.checked_at # k.checked_at

\* C8 as claimed: the list a fire probes is the list in durable storage at
\* the start of the fire.
C8_FireProbesStoredList ==
    [][FireStarts => urls' = StoredUrls(config)]_vars

\* C9: eviction and reactivation leave the four tables and the pending
\* timer as they were, and the fire that follows probes the persisted list.
C9_EvictionKeepsDurableState ==
    [][/\ lastOp' = "evict" =>
            /\ logs' = logs
            /\ stats' = stats
            /\ health' = health
            /\ config' = config
            /\ alarm' = alarm
       /\ (lastOp = "evict" /\ FireStarts) => urls' = StoredUrls(config)]_vars

\* C9 happens: the shard was evicted with rows in every table and a timer
\* pending
C9_Witness ==
    /\ lastOp = "evict"
    /\ logs # {}
    /\ stats # {}
    /\ health # {}
    /\ StoredUrls(config) # <<>>
    /\ alarm # NoAlarm

\* C10 as claimed: log with a level outside LogLevel returns a
\* VALIDATION_ERROR failure and stores nothing; a successful log with a
\* valid level stores one row and returns the entry with a fresh id, the
\* current timestamp and the fields of the input.
C10_LogValidatesLevel ==
    [][lastOp' = "log" =>
         LET input == arg'[1]
         IN  IF input.level \notin LogLevel
             THEN /\ ~ret'.ok
                  /\ ret'.code = VALIDATION_ERROR
                  /\ logs' = logs
             ELSE ret'.ok =>
                  LET entry == ret'.data[1]
                  IN  /\ entry = LogEntry(entry.id, toISOString(now), input)
                      /\ \A r \in logs : r.id # entry.id
                      /\ logs' = logs \cup {LogRow(entry)}
                      /\ Cardinality(logs') = Cardinality(logs) + 1]_vars

\* C11 as claimed: a logBatch call that fails returns INTERNAL_ERROR and
\* leaves table logs as it was before the call.
C11_BatchAllOrNothing ==
    [][(lastOp' = "logBatch" /\ ~ret'.ok) =>
          (ret'.code = INTERNAL_ERROR /\ logs' = logs)]_vars

\* C13: a logBatch call that succeeds returns one entry per input, in input
\* order, with the fields of the input at the same position, one timestamp
\* (the time of the call) and pairwise distinct fresh ids, and adds exactly
\* the rows of these entries to table logs.
C13_BatchEntries ==
    [][(lastOp' = "logBatch" /\ ret'.ok) =>
          LET inputs == arg'[1]
              entries == ret'.data
              N == Len(inputs)
          IN  /\ Len(entries) = N
              /\ \A i \in 1..N :
                    /\ entries[i].level = inputs[i].level
                    /\ entries[i].message = inputs[i].message
                    /\ entries[i].context = inputs[i].context
                    /\ entries[i].request_id = inputs[i].request_id
                    /\ entries[i].timestamp = toISOString(now)
                    /\ \A r \in logs : r.id # entries[i].id
              /\ \A i, j \in 1..N : i # j => entries[i].id # entries[j].id
              /\ logs' = logs \cup {LogRow(entries[i]) : i \in 1..N}
              /\ Cardinality(logs') = Cardinality(logs) + N]_vars

\* C13 happens: a batch of two different inputs succeeded on a store that
\* held an entry already
C13_Witness ==
    /\ lastOp = "logBatch"
    /\ ret.ok
    /\ Len(ret.data) = 2
    /\ ret.data[1].message # ret.data[2].message
    /\ Cardinality(logs) = 3

\* the positions of the entry of log's result in the result of the query
\* made right after it
FoundAt == {i \in 1..Len(ret'.data) : ret'.data[i] = ret.data[1]}

\* the ids of the entries a log or logBatch call returns are pairwise
\* distinct and carried by no stored entry
FreshIds ==
    (lastOp' \in {"log", "logBatch"} /\ ret'.ok) =>
        /\ \A i \in 1..Len(ret'.data) : \A r \in logs : r.id # ret'.data[i].id
        /\ \A i, j \in 1..Len(ret'.data) :
              i # j => ret'.data[i].id # ret'.data[j].id

C14_LaterBatchFirst ==
    [][(lastOp' = "query" /\ ret'.ok) =>
          \A b1, b2 \in 1..Len(batches) : \A p, q \in 1..Len(ret'.data) :
             (b1 < b2 /\ ret'.data[p].id \in batches[b2]
                      /\ ret'.data[q].id \in batches[b1]) => p < q]_vars

\* limit and offset in effect in the query of the step
LimitOf(filters) ==
    IF filters.limit = Undefined THEN DefaultLimit ELSE filters.limit.n

OffsetOf(filters) ==
    IF filters.offset = Undefined THEN 0 ELSE filters.offset.n

\* query has returned entries (it leaves the store as it is)
QueryReturned == lastOp = "query" /\ ret.ok

\* res is the page of limit entries after the first offset ones of the
\* entries sel in newest-first order
IsPage(res, sel, limit, offset) ==
    LET rest == IF Cardinality(sel) > offset
                THEN Cardinality(sel) - offset ELSE 0
    IN  /\ \A i, j \in 1..Len(res) :
              i < j => IsoGeq(res[i].timestamp, res[j].timestamp)
        /\ Len(res) = Min(limit, rest)
        /\ \A i \in 1..Len(res) :
              /\ res[i] \in sel
              /\ Cardinality({e \in sel :
                    ~IsoGeq(res[i].timestamp, e.timestamp)}) <= offset + i - 1
              /\ Cardinality({e \in sel :
                    IsoGeq(e.timestamp, res[i].timestamp)}) >= offset + i
        /\ \A i, j \in 1..Len(res) : i # j => res[i] # res[j]

\* C15: the entries query returns are in non-increasing timestamp order,
\* at most limit (DefaultLimit when absent), and they are the entries at
\* positions offset+1, offset+2, ... (offset 0 when absent) of the selected
\* rows in newest-first order: with no filter, the limit most recent ones.
C15_NewestFirstPage ==
    QueryReturned =>
        IsPage(ret.data, {RowEntry(r) : r \in {x \in logs : Where(x, arg[1])}},
               LimitOf(arg[1]), OffsetOf(arg[1]))

\* C15 happens: a query with an offset returned a page shorter than the
\* store, and not its newest entry
C15_Witness ==
    /\ lastOp = "query"
    /\ ret.ok
    /\ arg[1].offset = Num(1)
    /\ Cardinality(logs) = 3
    /\ Len(ret.data) = DefaultLimit
    /\ \E r \in logs : \A i \in 1..Len(ret.data) :
          ~IsoGeq(ret.data[i].timestamp, r.timestamp)

\* an entry satisfies the level, since, until, request_id and context
\* filters that are given
Satisfies(entry, filters) ==
    /\ filters.level # None => entry.level = filters.level[1]
    /\ filters.since # None => IsoGeq(entry.timestamp, filters.since[1])
    /\ filters.until # None => IsoGeq(filters.until[1], entry.timestamp)
    /\ filters.request_id # None =>
          (entry.request_id # None /\ entry.request_id[1] = filters.request_id[1])
    /\ filters.context # None =>
          /\ entry.context # None
          /\ \A i \in 1..Len(filters.context[1]) :
                \E j \in 1..Len(entry.context[1]) :
                   entry.context[1][j] = filters.context[1][i]

\* C16: every entry query returns satisfies all the filters given; when
\* the page is not full at offset 0 (and no search text is given) every
\* stored entry that satisfies them is returned.
C16_FiltersConjoined ==
    QueryReturned =>
        LET filters == arg[1]
            res == ret.data
        IN  /\ \A i \in 1..Len(res) : Satisfies(res[i], filters)
            /\ (/\ filters.search = None
                /\ OffsetOf(filters) = 0
                /\ Len(res) < LimitOf(filters)) =>
                  \A r \in logs :
                     Satisfies(RowEntry(r), filters) =>
                        \E i \in 1..Len(res) : res[i] = RowEntry(r)

\* C16 happens: a query with two filters returned the one entry of a
\* store of three that satisfies both, each filter being satisfied by two
C16_Witness ==
    /\ lastOp = "query"
    /\ ret.ok
    /\ arg[1].level # None
    /\ arg[1].since # None
    /\ Len(ret.data) = 1
    /\ Cardinality(logs) = 3
    /\ Cardinality({r \in logs : r.level = arg[1].level[1]}) = 2
    /\ Cardinality({r \in logs : IsoGeq(r.timestamp, arg[1].since[1])}) = 2

\* the filters g are the filters f and one more (a further filter field,
\* or a further context key), with the limit and the offset of f
AddsOneFilter(f, g) ==
    /\ f.limit = g.limit
    /\ f.offset = g.offset
    /\ \E k \in {"level", "since", "until", "request_id", "search", "context"} :
          /\ f[k] # g[k]
          /\ \/ f[k] = None
             \/ /\ k = "context"
                /\ g[k] # None
                /\ Len(f[k][1]) < Len(g[k][1])
                /\ \A i \in 1..Len(f[k][1]) : f[k][1][i] = g[k][1][i]
          /\ \A h \in {"level", "since", "until", "request_id", "search",
                        "context"} \ {k} : f[h] = g[h]

\* two queries in a row on one store, the second with one more filter
Narrowed ==
    /\ QueryReturned
    /\ lastOp' = "query"
    /\ ret'.ok
    /\ AddsOneFilter(arg[1], arg'[1])

\* C17 as claimed: with the same store, limit and offset, the entries of
\* the query with one more filter are among the entries of the query
\* without it.
C17_FilterNarrows ==
    [][Narrowed => Range(ret'.data) \subseteq Range(ret.data)]_vars

\* C17 amended: when the query without the further filter returned all its
\* matches (offset 0 and a page that is not full), the entries of the query
\* with one more filter are among them.
C17_FilterNarrowsWholeResult ==
    [][(/\ Narrowed
        /\ OffsetOf(arg[1]) = 0
        /\ Len(ret.data) < LimitOf(arg[1])) =>
          Range(ret'.data) \subseteq Range(ret.data)]_vars

\* C17 happens: a query with two filters returned an entry from a store of
\* three entries of which one filter alone selects one other entry and no
\* more
C17_Witness ==
    /\ lastOp = "query"
    /\ ret.ok
    /\ arg[1].level # None
    /\ arg[1].until # None
    /\ Len(ret.data) = 1
    /\ Cardinality(logs) = 3
    /\ Cardinality({r \in logs : r.level = arg[1].level[1]}) = 2

\* text holds sub as a run of equal characters
ContainsLiteral(text, sub) ==
    \E i \in 1..(Len(text) + 1) :
       /\ i + Len(sub) - 1 <= Len(text)
       /\ \A j \in 1..Len(sub) : text[i + j - 1] = sub[j]

\* C18 as claimed: a query with a search text returns only entries whose
\* message holds the text letter for letter, and, when the page is not
\* full at offset 0, every such entry that satisfies the other filters.
C18_SearchCaseSensitive ==
    (QueryReturned /\ arg[1].search # None) =>
        LET filters == arg[1]
            res == ret.data
            text == Chars(filters.search[1])
        IN  /\ \A i \in 1..Len(res) :
                  ContainsLiteral(Chars(res[i].message), text)
            /\ (OffsetOf(filters) = 0 /\ Len(res) < LimitOf(filters)) =>
                  \A r \in logs :
                     (/\ Satisfies(RowEntry(r), filters)
                      /\ ContainsLiteral(Chars(r.message), text)) =>
                        \E i \in 1..Len(res) : res[i] = RowEntry(r)

\* a parameter value that is a number: digits only
IsNumeric(text) ==
    text # <<>> /\ \A i \in 1..Len(text) : DigitValue(text[i]) >= 0

\* the parameters without the limit and offset that are not numbers and
\* without the keys GET /logs does not know
RECURSIVE Recognised(_)
Recognised(params) ==
    IF params = <<>> THEN <<>>
    ELSE LET key == Head(params)[1]
             drop == \/ key \in {Key("limit"), Key("offset")}
                        /\ ~IsNumeric(Head(params)[2])
                     \/ /\ key[1] # "context."
                        /\ key[2] \notin {"level", "since", "until",
                                          "request_id", "search", "limit",
                                          "offset"}
         IN  (IF drop THEN <<>> ELSE <<Head(params)>>) \o Recognised(Tail(params))

\* C19 as claimed: a GET /logs request succeeds and returns what the
\* request without its non-numeric limit and offset and without its
\* unrecognised keys may return.
C19_BadPagingFallsBack ==
    lastOp = "GET /logs" =>
        /\ ret.ok
        /\ ret \in QueryOutcomes(logs, ParseFilters(Recognised(arg[1])))

\* timestamp a is strictly earlier than timestamp b
Earlier(a, b) == a[1] < b[1] \/ (a[1] = b[1] /\ a[2] < b[2])

\* C20: pruneLogs(w) succeeds, removes the stored entries whose timestamp
\* is strictly earlier than w and no other, and returns the number of
\* entries it removed.
C20_PruneStrictlyEarlier ==
    [][lastOp' = "pruneLogs" =>
          LET w == arg'[1]
          IN  /\ ret'.ok
              /\ logs' \subseteq logs
              /\ \A r \in logs : r \in logs' <=> ~Earlier(r.timestamp, w)
              /\ ret'.data[1].deleted = Cardinality(logs \ logs')]_vars

\* C20 happens: a prune removed an entry and kept an entry logged at the
\* watermark and a later one
C20_Witness ==
    /\ lastOp = "pruneLogs"
    /\ ret.data[1].deleted = 1
    /\ \E r \in logs : r.timestamp = arg[1]
    /\ \E r \in logs : Earlier(arg[1], r.timestamp)

\* C21: a pruneLogs call that directly follows a pruneLogs call with an equal
\* or later watermark succeeds, deletes no row, returns deleted = 0 and
\* leaves table logs as it was.
C21_PruneIdempotent ==
    [][(/\ lastOp = "pruneLogs" /\ ret.ok
        /\ lastOp' = "pruneLogs"
        /\ IsoGeq(arg[1], arg'[1])) =>
          /\ ret'.ok
          /\ ret'.data[1].deleted = 0
          /\ logs' = logs]_vars

\* C21 happens: a pruneLogs call has deleted nothing from a store that holds
\* entries and from which earlier calls removed entries
C21_Witness ==
    /\ lastOp = "pruneLogs"
    /\ ret.ok
    /\ ret.data[1].deleted = 0
    /\ arg[1] # toISOString(0)
    /\ logs # {}
    /\ Cardinality(logs) < nextId

\* the counters of the date in the table: those of its row, zeros without one
CountersOf(table, date) ==
    IF \E r \in table : r.date = date
    THEN LET r == CHOOSE q \in table : q.date = date
         IN  [column \in Columns |-> r[column]]
    ELSE [column \in Columns |-> 0]

\* C22: a recordStats(level, count) call leaves exactly one row for today,
\* whose counter of the level is the former one (0 without a row) plus count
\* (plus 1 when count is not given) and whose other three counters are the
\* former ones, leaves the rows of the other dates as they were, and returns
\* today's row as it is after the update.
C22_RecordStats ==
    [][(lastOp' = "recordStats") =>
          LET today == getDateKey(now)
              column == toLowerCase(arg'[1].level)
              count == IF arg'[1].count = Undefined THEN 1
                       ELSE arg'[1].count.n
              before == CountersOf(stats, today)
              rows == {r \in stats' : r.date = today}
          IN  /\ Cardinality(rows) = 1
              /\ \A r \in rows :
                    /\ r[column] = before[column] + count
                    /\ \A other \in Columns \ {column} :
                          r[other] = before[other]
                    /\ ret' = Returned(r)
              /\ {r \in stats' : r.date # today}
                    = {r \in stats : r.date # today}]_vars

\* C22 happens: the second recordStats('INFO') call of a day returned info = 2
\* next to a counter of another level, with the row of another day in the
\* store
C22_Witness ==
    /\ lastOp = "recordStats"
    /\ arg[1] = [level |-> "INFO", count |-> Undefined]
    /\ ret.value.info = 2
    /\ ret.value.error = 1
    /\ \E r \in stats : r.date # ret.value.date /\ r.info > 0
    /\ \A e \in submitted :
          (e.date = ret.value.date /\ e.column = "info") => e.sum = 2

\* the orders of a list: the permutations of its positions
Orders(list) ==
    {f \in [1..Len(list) -> 1..Len(list)] :
        \A a, b \in 1..Len(list) : a # b => f[a] # f[b]}

\* one recordStats call per item, in the order given, on a table: the table
\* left and the snapshot the last call returned
RECURSIVE OneByOne(_, _, _, _)
OneByOne(table, date, list, order) ==
    IF order = <<>> THEN [table |-> table, ret |-> NoRet]
    ELSE LET item == list[Head(order)]
             run == recordStatsRun(table, date, item.level, item.count, 0)
         IN  IF Len(order) = 1 THEN run
             ELSE OneByOne(run.table, date, list, Tail(order))

\* C23: a recordStatsBatch(list) call leaves the table and returns the
\* snapshot that one recordStats(level, count) call per item leaves and
\* returns last, whatever the order of the calls; with an empty list the
\* counters of every date stay as they are and today's are returned; on a
\* day without data [{INFO,3},{ERROR,1}] yields info 3, error 1, debug 0,
\* warn 0.
C23_BatchAsSingles ==
    [][(lastOp' = "recordStatsBatch") =>
          LET today == getDateKey(now)
              list == arg'[1]
          IN  /\ \A order \in Orders(list) :
                    list # <<>> =>
                       /\ stats' = OneByOne(stats, today, list, order).table
                       /\ ret' = OneByOne(stats, today, list, order).ret
              /\ list = <<>> =>
                    /\ \A r \in stats \cup stats' :
                          CountersOf(stats', r.date) = CountersOf(stats, r.date)
                    /\ ret'.value.date = today
                    /\ \A column \in Columns :
                          ret'.value[column] = CountersOf(stats, today)[column]
              /\ (/\ \A r \in stats : r.date # today
                  /\ list = <<[level |-> "INFO", count |-> 3],
                              [level |-> "ERROR", count |-> 1]>>) =>
                    ret' = Returned([date |-> today, debug |-> 0, info |-> 3,
                                     warn |-> 0, error |-> 1])]_vars

\* C23 happens: recordStatsBatch([{INFO,3},{ERROR,1}]) has run on the second
\* day, which had no data, of a store with data
C23_Witness ==
    /\ lastOp = "recordStatsBatch"
    /\ arg[1] = <<[level |-> "INFO", count |-> 3],
                  [level |-> "ERROR", count |-> 1]>>
    /\ ret = Returned([date |-> 1, debug |-> 0, info |-> 3, warn |-> 0,
                       error |-> 1])
    /\ \E r \in stats : r.date = 0 /\ r.info > 0

\* C24 as claimed: no counter of a daily_stats row is below zero.
C24_CountersNonNegative ==
    \A r \in stats : \A column \in Columns : r[column] >= 0

\* the sum of the counts passed so far for the date and the column
SubmittedFor(date, column) ==
    IF \E e \in submitted : e.date = date /\ e.column = column
    THEN (CHOOSE e \in submitted : e.date = date /\ e.column = column).sum
    ELSE 0

\* C25: whatever the interleaving of the recordStats and recordStatsBatch
\* calls with each other and with the steps of the health scheduler, every
\* counter of every date is the sum of the counts passed for the date and
\* the level (the counters start at zero), and every date counts were
\* passed for has its row.
C25_NoLostUpdate ==
    /\ \A r \in stats : \A column \in Columns :
          r[column] = SubmittedFor(r.date, column)
    /\ \A e \in submitted : \E r \in stats : r.date = e.date

\* C25 happens: a counter update has run while the alarm handler awaited
\* fetch(), after other updates of the same counters
C25_Witness ==
    /\ lastOp \in {"recordStats", "recordStatsBatch"}
    /\ alarmPc = "fetch"
    /\ \E r \in stats : r.info = MaxStat /\ r.error > 1

\* the snapshot of the date: the date with its counters
SnapshotOf(table, date) ==
    [date |-> date, debug |-> CountersOf(table, date).debug,
     info |-> CountersOf(table, date).info,
     warn |-> CountersOf(table, date).warn,
     error |-> CountersOf(table, date).error]

\* C26: on a store that answers, a getStats call returns a snapshot, never
\* null and never a failure: the row of the date asked for (today without an
\* argument) when the table has one, a row of that date with four zeros
\* when it has none; and it leaves the table as it is.
C26_GetStatsNeverEmpty ==
    [][(lastOp' = "getStats") =>
          LET date == IF arg'[1] = None THEN getDateKey(now) ELSE arg'[1][1]
              rows == {r \in stats : r.date = date}
          IN  /\ DOMAIN ret' = {"value"}
              /\ DOMAIN ret'.value = {"date"} \cup Columns
              /\ rows = {} =>
                    ret'.value = [date |-> date, debug |-> 0, info |-> 0,
                                  warn |-> 0, error |-> 0]
              /\ \A r \in rows : ret'.value = r
              /\ stats' = stats]_vars

\* C26 happens: getStats was asked for a date without a row on a store with
\* the row of another date
C26_Witness ==
    /\ lastOp = "getStats"
    /\ arg[1] # None
    /\ \A r \in stats : r.date # arg[1][1]
    /\ \E r \in stats : r.info > 0
    /\ ret.value.date = arg[1][1]
    /\ ret.value.info = 0

\* C27: getStatsRange(days), days a count, returns days snapshots: the one at
\* position k is that of the date k - 1 days before today, the row of the
\* date or four zeros without one.
C27_RangeNewestFirst ==
    [][(lastOp' = "getStatsRange" /\ arg'[1].tag = "number"
                                  /\ arg'[1].n >= 0) =>
          /\ DOMAIN ret' = {"value"}
          /\ Len(ret'.value) = arg'[1].n
          /\ \A k \in 1..Len(ret'.value) :
                ret'.value[k] = SnapshotOf(stats, getDateKey(now) - (k - 1))
          /\ stats' = stats]_vars

\* C27 happens: getStatsRange(2) on the second day returned the zeros of the
\* day, which has no row, and then the row of the day before
C27_Witness ==
    /\ lastOp = "getStatsRange"
    /\ arg[1] = Num(2)
    /\ getDateKey(now) = 1
    /\ \A r \in stats : r.date # 1
    /\ Len(ret.value) = 2
    /\ ret.value[1] = [date |-> 1, debug |-> 0, info |-> 0, warn |-> 0,
                       error |-> 0]
    /\ ret.value[2].date = 0
    /\ ret.value[2].info > 0

\* the entry points that return a Result, those of the counters, and the
\* routes of fetch to the latter
ResultMethods ==
    {"log", "logBatch", "query", "pruneLogs", "setHealthUrls",
     "getHealthHistory"}
StatsMethods == {"recordStats", "recordStatsBatch", "getStats", "getStatsRange"}
StatsRoutes == {"POST /stats", "GET /stats"}

\* r is Ok(...) or Err(...)
IsResult(r) == DOMAIN r = {"ok", "code", "data"}

StatsWriters == {"recordStats", "recordStatsBatch", "POST /stats"}

\* C30: only recordStats and recordStatsBatch (and POST /stats, the route
\* that calls them) change table daily_stats: every other step, of log,
\* logBatch, query, pruneLogs, setHealthUrls, getHealthHistory, getStats,
\* getStatsRange, GET /stats and the timer, leaves every row of it as it was
C30_OnlyRecordStatsWrites ==
    [][lastOp' \notin StatsWriters => stats' = stats]_vars

\* C30 happens: pruneLogs has deleted the last entries of the store, and the
\* row of their date is there with a counter above zero
C30_Witness ==
    /\ lastOp = "pruneLogs"
    /\ ret.ok
    /\ ret.data[1].deleted > 0
    /\ logs = {}
    /\ \E r \in stats : r.date = getDateKey(now) /\ r.info > 0

C31_EntriesImmutable ==
    [][/\ \A r \in logs : \A q \in logs' : q.id = r.id => q = r
       /\ \A q \in logs' \ logs :
             /\ lastOp' \in {"log", "logBatch"}
             /\ q.timestamp = toISOString(now)
             /\ \A r \in logs : r.id # q.id
       /\ \A r \in logs \ logs' :
             /\ lastOp' = "pruneLogs"
             /\ ~IsoGeq(r.timestamp, arg'[1])]_vars

\* C31 happens: a pruneLogs call has deleted the entries older than its
\* watermark and left a younger one, while the timer has probed and a
\* counter is above zero
C31_Witness ==
    /\ lastOp = "pruneLogs"
    /\ ret.ok
    /\ ret.data[1].deleted > 0
    /\ logs # {}
    /\ \A r \in logs : IsoGeq(r.timestamp, arg[1])
    /\ health # {}
    /\ stats # {}

\* what an object holds is of the app alone: entries with the app's
\* message, the app's URL in the stored list, the cache, the handler and
\* the health records, and counts of the app's level only
OwnData(app, object) ==
    /\ \A r \in object.logs : r.message = MessageOf(app)
    /\ object.config \in {None, JSONstringify(<<UrlOf(app)>>)}
    /\ object.healthUrls \in {<<>>, <<UrlOf(app)>>}
    /\ object.urls \in {<<>>, <<UrlOf(app)>>}
    /\ \A h \in object.health : h.url = UrlOf(app)
    /\ \A r \in object.stats : \A column \in Columns :
          r[column] # 0 => column = toLowerCase(LevelOf(app))
    /\ (object.config = None) => (object.alarm = NoAlarm /\ object.health = {})

\* C32: a request or a timer fire on the object of one app leaves the
\* object of every other app (entries, counters, health records, URL list,
\* cache, timer, handler) as it was; every object holds what its own app
\* sent and nothing of another app; and a query returns entries of the
\* object's own app only.
C32_TenantIsolation ==
    [][/\ (lastOp' # "switch") => (shard' = shard /\ parked' = parked)
       /\ \A app \in Apps : OwnData(app, ObjectOf(app))'
       /\ (lastOp' = "query") =>
             \A i \in DOMAIN ret'.data :
                 ret'.data[i].message = MessageOf(shard')]_vars

\* C32 happens: both apps have stored an entry, app B has a counter and a
\* monitored URL whose timer has fired, app A has neither, and a query is
\* answered from the entries of app A
C32_Witness ==
    /\ shard = "A"
    /\ lastOp = "query"
    /\ Len(ret.data) = 1
    /\ config = None
    /\ stats = {}
    /\ parked["B"].logs # {}
    /\ parked["B"].health # {}
    /\ parked["B"].stats # {}
    /\ parked["B"].alarm # NoAlarm

\* the two routes with a path parameter
GatedRoutes == {"POST /apps/:app_id/prune", "POST /apps/:app_id/health-urls"}

C34_InvalidAccentFallsBack ==
    (/\ lastOp = "getBrandConfig"
     /\ arg[1] # None
     /\ LET digits == StripHash(arg[1][1])
        IN  Len(digits) # 6 \/ \E i \in DOMAIN digits : digits[i] \notin HexDigits)
    => ret = [accentColor |-> <<"#", "F", "F", "4", "F", "0", "3">>,
              accentHoverColor |-> <<"#", "e", "5", "4", "7", "0", "2">>,
              accentLightColor |-> <<"#", "f", "f", "6", "9", "2", "8">>,
              accentDimColor |->
                  <<"r", "g", "b", "a", "(", "2", "5", "5", ",", " ", "7", "9",
                    ",", " ", "3", ",", " ", "0", ".", "1", "2", ")">>,
              accentGlowColor |->
                  <<"r", "g", "b", "a", "(", "2", "5", "5", ",", " ", "7", "9",
                    ",", " ", "3", ",", " ", "0", ".", "0", "8", ")">>,
              accentBorderColor |->
                  <<"r", "g", "b", "a", "(", "2", "5", "5", ",", " ", "7", "9",
                    ",", " ", "3", ",", " ", "0", ".", "3", ")">>]

\* C34 happens: BRAND_ACCENT is six characters that are not all hex digits,
\* which as a colour would give NaN
C34_Witness ==
    /\ lastOp = "getBrandConfig"
    /\ arg[1] = Some(<<"G", "G", "G", "G", "G", "G">>)
    /\ ret.accentColor = DefaultAccent

\* the byte written as the two hex digits hi and lo, in decimal
ByteText(hi, lo) == toString(16 * HexValue(hi) + HexValue(lo), 10)

\* C35: hexToRgba(hex, alpha) is rgba(r, g, b, alpha) with r, g, b the
\* decimal values of the three pairs of digits when hex is six hex digits
\* after an optional leading #, and rgba(0, 0, 0, alpha) for every other
\* text.
C35_HexToRgba ==
    (lastOp = "hexToRgba") =>
        LET digits == StripHash(arg[1])
            alpha == arg[2]
        IN  IF Len(digits) = 6 /\ \A i \in 1..6 : digits[i] \in HexDigits
            THEN ret.text = Rgba(ByteText(digits[1], digits[2]),
                                 ByteText(digits[3], digits[4]),
                                 ByteText(digits[5], digits[6]), alpha)
            ELSE ret.text = <<"r", "g", "b", "a", "(", "0", ",", " ", "0", ",",
                              " ", "0", ",", " ">> \o alpha \o <<")">>

\* C35 happens: #3fF3G3 has a letter that is no hex digit among six
\* characters, and the answer is the fallback
C35_Witness ==
    /\ lastOp = "hexToRgba"
    /\ arg[1] = <<"#", "3", "f", "F", "3", "G", "3">>
    /\ ret.text = <<"r", "g", "b", "a", "(", "0", ",", " ", "0", ",", " ", "0",
                    ",", " ", "0", ".", "5", ")">>


----------------------------------------------------------------------------
(* The health scheduler with a failing alarm API                           *)

\* the health scheduler when any awaited call of setHealthUrls may throw
MonitorNext ==
    \/ \E list \in SeqsUpTo(URLS, 1), failAt \in {0, 1, 2} :
           setHealthUrlsAt(list, failAt)
    \/ Tick
    \/ AlarmStart
    \/ Probe
    \/ Evict

MonitorSpec == Init /\ [][MonitorNext]_vars

\* C36: whenever the persisted URL list is non-empty and no timer fire is in
\* progress, a timer is pending; also after a fire that threw and after a
\* setHealthUrls call that returned a failure.
C36_MonitoringNeverStops ==
    (StoredUrls(config) # <<>> /\ alarmPc = "idle") => alarm # NoAlarm


\* C37: a setHealthUrls call that returns a failure leaves the persisted
\* list, the in-memory list and the pending timer as they were; a call that
\* returns success leaves both lists equal to its argument.
C37_SetHealthUrlsAtomic ==
    [][lastOp' = "setHealthUrls" =>
         IF ret'.ok
         THEN /\ StoredUrls(config') = arg'[1]
              /\ healthUrls' = arg'[1]
         ELSE /\ config' = config
              /\ healthUrls' = healthUrls
              /\ alarm' = alarm]_vars


----------------------------------------------------------------------------
(* Pages of query                                                          *)

\* the page sizes and page numbers asked for
PageLimits == {1, 2}

PageNumbers == {0, 1, 2}

\* query({limit, offset})
PageFilters(limit, offset) ==
    [NoFilters EXCEPT !.limit = Num(limit), !.offset = Num(offset)]

\* batches and single entries written in any order and the pages of the
\* unfiltered query read one after another
PageNext ==
    \/ \E inputs \in SeqsUpTo({input \in BatchInputs : input.level = "INFO"},
                               MaxBatch) : logBatch(inputs, 0)
    \/ \E input \in SingleInputs : log(input, FALSE)
    \/ \E limit \in PageLimits, k \in PageNumbers :
           query(PageFilters(limit, k * limit), FALSE)
    \/ now < MaxBatchTicks /\ Elapse

PageSpec == Init /\ [][PageNext]_vars

\* the ids of the entries of a page
PageIds(page) == {page[i].id : i \in 1..Len(page)}

\* C38: two pages of the same query read one after the other from the same
\* store, with the same limit and different offsets that are multiples of
\* the limit, have no entry in common; the pages at offsets 0 and limit
\* together hold every entry of a store of at most 2 * limit entries, also
\* when entries share a timestamp.
C38_PagesPartition ==
    [][(/\ lastOp = "query" /\ ret.ok
        /\ lastOp' = "query" /\ ret'.ok
        /\ LimitOf(arg[1]) = LimitOf(arg'[1])
        /\ OffsetOf(arg[1]) # OffsetOf(arg'[1])) =>
          /\ PageIds(ret.data) \cap PageIds(ret'.data) = {}
          /\ (/\ {OffsetOf(arg[1]), OffsetOf(arg'[1])} = {0, LimitOf(arg[1])}
              /\ Cardinality(logs) <= 2 * LimitOf(arg[1])) =>
                PageIds(ret.data) \cup PageIds(ret'.data) =
                   {r.id : r \in logs}]_vars

\* C38 without ties: the same holds when no two stored entries share a
\* timestamp
C38_PagesPartitionNoTies ==
    [][(/\ lastOp = "query" /\ ret.ok
        /\ lastOp' = "query" /\ ret'.ok
        /\ LimitOf(arg[1]) = LimitOf(arg'[1])
        /\ OffsetOf(arg[1]) # OffsetOf(arg'[1])
        /\ \A r1, r2 \in logs : r1.timestamp = r2.timestamp => r1 = r2) =>
          /\ PageIds(ret.data) \cap PageIds(ret'.data) = {}
          /\ (/\ {OffsetOf(arg[1]), OffsetOf(arg'[1])} = {0, LimitOf(arg[1])}
              /\ Cardinality(logs) <= 2 * LimitOf(arg[1])) =>
                PageIds(ret.data) \cup PageIds(ret'.data) =
                   {r.id : r \in logs}]_vars


\* the router when every insert succeeds: requests with one entry or a
\* batch of two levels, their counter updates, and midnight in between
DateNext ==
    \/ \E body \in {b \in RouterBodies :
                       b \in LogInput \/ ("logs" \in DOMAIN b /\ b.logs \in Seq(LogInput))} :
           routerPostLogs(body, 0) /\ ret'.ok
    \/ \E i \in DOMAIN pending : routerRecordStats(i) /\ WithinStat(stats')
    \/ Midnight

DateSpec == Init /\ [][DateNext]_vars

\* C39: once every POST /logs request of the router has completed, the
\* counter of each level in the row of each date equals the number of
\* entries of that level inserted through the router whose timestamp falls
\* on that date, also when midnight passes between the insert and the
\* counter update.
C39_CreditedToOwnDate ==
    (pending = <<>>) =>
        \A date \in StatDays, level \in LogLevel :
            CountersOf(stats, date)[toLowerCase(level)] =
                Cardinality({r \in logs : /\ r.timestamp[1] = date
                                          /\ r.level = level})

====
